---- MODULE Spec2Model ----
(***************************************************************************)
(* Model of logctx (src/log-context-search/index.js): the raw scan         *)
(* (processFile) that assembles records out of lines, filters them and     *)
(* emits them with record-level context, the JSONL index it can write,     *)
(* and the index read path (processIndex) that replays a written index.    *)
(*                                                                         *)
(* Spec follows a raw scan and the replay of its index with sinks that     *)
(* accept every write.  SpecFilter applies the filter to one record.       *)
(* SpecIO follows the raw scan with the signals of its sinks: writes that  *)
(* return false, 'drain', the end of the index stream, an 'error' of       *)
(* process.stdout and the exit of the process.                             *)
(*                                                                         *)
(* Text is modelled as a sequence of atoms.  An atom of a log line is one  *)
(* whitespace-free word; the words of a line are separated by one blank    *)
(* and a line has no leading or trailing blank.  The atom NL is the        *)
(* newline that join('\n') inserts.  An atom of a thread name is one       *)
(* character.  A value that may be null is a set: {} is null, {v} is v.    *)
(***************************************************************************)
EXTENDS Integers, Sequences, FiniteSets, TLC

\* ---------------------------------------------------------------- bounds
MaxLines == 4
MaxContext == 2
MaxIndexLines == 3
MaxTreeDepth == 2
MaxChars == 4

\* ------------------------------------------------------- nullable values
Null == {}
Some(v) == {v}
Get(o) == CHOOSE v \in o : TRUE

\* ------------------------------------------------------------- text
NL == "\n"

Min(a, b) == IF a <= b THEN a ELSE b

Max(a, b) == IF a >= b THEN a ELSE b

\* Array.prototype.join('\n') over an array of texts
RECURSIVE Join(_)
Join(arr) ==
  IF Len(arr) = 0 THEN << >>
  ELSE IF Len(arr) = 1 THEN arr[1]
  ELSE arr[1] \o <<NL>> \o Join(Tail(arr))

\* String.prototype.split('\n'): always at least one piece
RECURSIVE Split(_)
Split(text) ==
  IF \E i \in 1..Len(text) : text[i] = NL
  THEN LET i == CHOOSE k \in 1..Len(text) :
                   text[k] = NL /\ \A j \in 1..(k - 1) : text[j] # NL
       IN <<SubSeq(text, 1, i - 1)>> \o Split(SubSeq(text, i + 1, Len(text)))
  ELSE <<text>>

\* String.prototype.includes
Includes(haystack, needle) ==
  \E i \in 0..(Len(haystack) - Len(needle)) :
    \A j \in 1..Len(needle) : haystack[i + j] = needle[j]

\* String.prototype.toLowerCase, atom by atom
LowerAtom(a) ==
  CASE a = "Boom" -> "boom"
    [] a = "ERROR" -> "error"
    [] a = "INFO" -> "info"
    [] a = "T" -> "t"
    [] a = "X.Y" -> "x.y"
    [] OTHER -> a

toLowerCase(text) == [i \in 1..Len(text) |-> LowerAtom(text[i])]

\* String.prototype.toUpperCase of a level word
toUpperCase(a) ==
  CASE a = "error" -> "ERROR"
    [] a = "info" -> "INFO"
    [] OTHER -> a

\* ------------------------------------------------------------- input
TsFirst == "2024-01-01 00:00:00"
TsSecond == "2024-01-01 00:00:01"
TsInvalid == "2024-99-99 99:99:99"

\* the words that match TIMESTAMP_FALLBACK
TIMESTAMP_FALLBACK == {TsFirst, TsSecond, TsInvalid}

\* new Date(raw).getTime(), {} when the date is invalid (NaN)
DateGetTime(raw) ==
  CASE raw = TsFirst -> Some(0)
    [] raw = TsSecond -> Some(1000)
    [] OTHER -> Null

LineError == <<TsFirst, "ERROR", "1", "-", "[T1]", "X.Y", ":", "Boom">>
LineInfo == <<TsSecond, "INFO", "1", "---", "[t2]", "X.Y", ":", "ok">>
LineBare == <<TsInvalid, "boom">>
LineTrace == <<"at", "Boom">>
LineBlank == << >>

\* the lines a scanned file is made of: two header lines, a stack-trace
\* line and a blank line
Lines == {LineError, LineInfo, LineTrace, LineBlank}

\* [A-Z]+
UpperWords == {"ERROR", "INFO"}
\* \d+
DigitWords == {"1"}
\* -+
DashWords == {"-", "---"}
\* \[([^\]]+)\] and its capture group
BracketWords == {"[T1]", "[t2]"}
BracketCapture(w) == IF w = "[T1]" THEN <<"T", "1">> ELSE <<"t", "2">>

\* ---------------------------------------------------------- buildParser
\* startRegex of the default configuration: ^(TIMESTAMP_FALLBACK)
startRegexMatch(line) ==
  IF Len(line) >= 1 /\ line[1] \in TIMESTAMP_FALLBACK THEN Some(line[1]) ELSE Null

\* isStart that takes every line for the start of a record
isStartAlways(line) == TRUE

isStart(line) == startRegexMatch(line) # Null

\* headerRegex: timestamp, level, pid, dashes, [thread], blank, rest
headerRegexMatch(line) ==
  /\ Len(line) >= 6
  /\ line[1] \in TIMESTAMP_FALLBACK
  /\ line[2] \in UpperWords
  /\ line[3] \in DigitWords
  /\ line[4] \in DashWords
  /\ line[5] \in BracketWords

parseTimestamp(raw) == IF raw = Null THEN Null ELSE DateGetTime(Get(raw))

\* Position of the first ":" word that has a word on both sides (' : '),
\* else of the first ":" word that is followed by a word (': '), else 0.
splitLocationMessage(rest) ==
  LET wide == {i \in 2..(Len(rest) - 1) : rest[i] = ":"}
      narrow == {i \in 1..(Len(rest) - 1) : rest[i] = ":"}
      at(S) == CHOOSE i \in S : \A j \in S : i <= j
  IN IF Len(rest) = 0 THEN [location |-> Null, message |-> << >>]
     ELSE IF wide # {}
     THEN [location |-> Some(SubSeq(rest, 1, at(wide) - 1)),
           message |-> SubSeq(rest, at(wide) + 1, Len(rest))]
     ELSE IF narrow # {}
     THEN [location |-> IF at(narrow) = 1 THEN Null
                        ELSE Some(SubSeq(rest, 1, at(narrow) - 1)),
           message |-> SubSeq(rest, at(narrow) + 1, Len(rest))]
     ELSE [location |-> Some(rest), message |-> << >>]

\* createRecord that knows the full header only: a line that matches just
\* the start pattern is taken for plain text
createRecordHeaderOnly(line, lineNumber) ==
  LET header == headerRegexMatch(line)
      split == splitLocationMessage(SubSeq(line, 6, Len(line)))
      timestampRaw == IF header THEN Some(line[1]) ELSE Null
      message == IF header THEN split.message ELSE line
  IN [index |-> 0,
      startLine |-> lineNumber,
      endLine |-> lineNumber,
      timestampRaw |-> timestampRaw,
      timestampMs |-> parseTimestamp(timestampRaw),
      level |-> IF header THEN Some(line[2]) ELSE Null,
      pid |-> IF header THEN Some(line[3]) ELSE Null,
      thread |-> IF header THEN Some(BracketCapture(line[5])) ELSE Null,
      location |-> IF header THEN split.location ELSE Null,
      message |-> message,
      messageLines |-> IF message # << >> THEN <<message>> ELSE << >>,
      lines |-> <<line>>,
      printed |-> FALSE]

createRecord(line, lineNumber) ==
  LET header == headerRegexMatch(line)
      split == splitLocationMessage(SubSeq(line, 6, Len(line)))
      timestampRaw == IF header THEN Some(line[1]) ELSE startRegexMatch(line)
      message == IF header THEN split.message
                 ELSE IF timestampRaw # Null THEN Tail(line)
                 ELSE line
  IN [index |-> 0,
      startLine |-> lineNumber,
      endLine |-> lineNumber,
      timestampRaw |-> timestampRaw,
      timestampMs |-> parseTimestamp(timestampRaw),
      level |-> IF header THEN Some(line[2]) ELSE Null,
      pid |-> IF header THEN Some(line[3]) ELSE Null,
      thread |-> IF header THEN Some(BracketCapture(line[5])) ELSE Null,
      location |-> IF header THEN split.location ELSE Null,
      message |-> message,
      messageLines |-> IF message # << >> THEN <<message>> ELSE << >>,
      lines |-> <<line>>,
      printed |-> FALSE]

\* appendLine that forgets to push the line onto `lines`
appendLineNoLines(record, line, lineNumber) ==
  [record EXCEPT !.messageLines = Append(@, line),
                 !.endLine = lineNumber]

\* appendLine that forgets to advance endLine
appendLineNoEndLine(record, line, lineNumber) ==
  [record EXCEPT !.lines = Append(@, line),
                 !.messageLines = Append(@, line)]

appendLine(record, line, lineNumber) ==
  [record EXCEPT !.lines = Append(@, line),
                 !.messageLines = Append(@, line),
                 !.endLine = lineNumber]

\* --------------------------------------------------------- createFilter
\* lower-cased join of the record's lines, or the plain join
\* getText that looks at the first line of the record only
getTextFirstLine(record, lowercase) ==
  IF lowercase THEN toLowerCase(record.lines[1]) ELSE record.lines[1]

getText(record, lowercase) ==
  IF lowercase THEN toLowerCase(Join(record.lines)) ELSE Join(record.lines)

levelSet(opts) ==
  IF Len(opts.levels) > 0
  THEN Some({toUpperCase(opts.levels[i]) : i \in 1..Len(opts.levels)})
  ELSE Null

keywordNeedles(opts) ==
  [i \in 1..Len(opts.keywords) |->
     IF opts.ignoreCase THEN toLowerCase(opts.keywords[i]) ELSE opts.keywords[i]]

threadNeedle(opts) ==
  IF opts.thread # Null /\ Get(opts.thread) # << >>
  THEN Some(IF opts.ignoreCase THEN toLowerCase(Get(opts.thread)) ELSE Get(opts.thread))
  ELSE Null

\* createFilter that lets a record without timestampMs through a time range
createFilterNoTimestampPasses(opts, record) ==
  LET fromOk == opts.fromMs = Null
                \/ (record.timestampMs = Null
                    \/ ~(Get(record.timestampMs) < Get(opts.fromMs)))
      toOk == opts.toMs = Null
              \/ (record.timestampMs = Null
                  \/ ~(Get(record.timestampMs) > Get(opts.toMs)))
      levelOk == levelSet(opts) = Null
                 \/ (record.level # Null
                     /\ toUpperCase(Get(record.level)) \in Get(levelSet(opts)))
      haystack == IF record.thread # Null /\ Get(record.thread) # << >>
                  THEN (IF opts.ignoreCase THEN toLowerCase(Get(record.thread))
                        ELSE Get(record.thread))
                  ELSE << >>
      threadOk == threadNeedle(opts) = Null
                  \/ Includes(haystack, Get(threadNeedle(opts)))
      keywordOk == Len(opts.keywords) = 0
                   \/ \E i \in 1..Len(opts.keywords) :
                        Includes(getText(record, opts.ignoreCase), keywordNeedles(opts)[i])
  IN fromOk /\ toOk /\ levelOk /\ threadOk /\ keywordOk

\* createFilter that accepts a record as soon as one given criterion holds
createFilterAnyCriterion(opts, record) ==
  LET fromOk == opts.fromMs = Null
                \/ (record.timestampMs # Null
                    /\ ~(Get(record.timestampMs) < Get(opts.fromMs)))
      toOk == opts.toMs = Null
              \/ (record.timestampMs # Null
                  /\ ~(Get(record.timestampMs) > Get(opts.toMs)))
      levelOk == levelSet(opts) = Null
                 \/ (record.level # Null
                     /\ toUpperCase(Get(record.level)) \in Get(levelSet(opts)))
      haystack == IF record.thread # Null /\ Get(record.thread) # << >>
                  THEN (IF opts.ignoreCase THEN toLowerCase(Get(record.thread))
                        ELSE Get(record.thread))
                  ELSE << >>
      threadOk == threadNeedle(opts) = Null
                  \/ Includes(haystack, Get(threadNeedle(opts)))
      keywordOk == Len(opts.keywords) = 0
                   \/ \E i \in 1..Len(opts.keywords) :
                        Includes(getText(record, opts.ignoreCase), keywordNeedles(opts)[i])
      given == opts.fromMs # Null \/ opts.toMs # Null \/ levelSet(opts) # Null
               \/ threadNeedle(opts) # Null \/ Len(opts.keywords) > 0
  IN \/ ~given
     \/ (opts.fromMs # Null /\ fromOk)
     \/ (opts.toMs # Null /\ toOk)
     \/ (levelSet(opts) # Null /\ levelOk)
     \/ (threadNeedle(opts) # Null /\ threadOk)
     \/ (Len(opts.keywords) > 0 /\ keywordOk)

\* createFilter that lets a record without level or thread through those filters
createFilterNoHeaderPasses(opts, record) ==
  LET fromOk == opts.fromMs = Null
                \/ (record.timestampMs # Null
                    /\ ~(Get(record.timestampMs) < Get(opts.fromMs)))
      toOk == opts.toMs = Null
              \/ (record.timestampMs # Null
                  /\ ~(Get(record.timestampMs) > Get(opts.toMs)))
      levelOk == levelSet(opts) = Null
                 \/ (record.level = Null
                     \/ toUpperCase(Get(record.level)) \in Get(levelSet(opts)))
      haystack == IF record.thread # Null /\ Get(record.thread) # << >>
                  THEN (IF opts.ignoreCase THEN toLowerCase(Get(record.thread))
                        ELSE Get(record.thread))
                  ELSE << >>
      threadOk == threadNeedle(opts) = Null
                  \/ record.thread = Null
                  \/ Includes(haystack, Get(threadNeedle(opts)))
      keywordOk == Len(opts.keywords) = 0
                   \/ \E i \in 1..Len(opts.keywords) :
                        Includes(getText(record, opts.ignoreCase), keywordNeedles(opts)[i])
  IN fromOk /\ toOk /\ levelOk /\ threadOk /\ keywordOk

createFilter(opts, record) ==
  LET fromOk == opts.fromMs = Null
                \/ (record.timestampMs # Null
                    /\ ~(Get(record.timestampMs) < Get(opts.fromMs)))
      toOk == opts.toMs = Null
              \/ (record.timestampMs # Null
                  /\ ~(Get(record.timestampMs) > Get(opts.toMs)))
      levelOk == levelSet(opts) = Null
                 \/ (record.level # Null
                     /\ toUpperCase(Get(record.level)) \in Get(levelSet(opts)))
      haystack == IF record.thread # Null /\ Get(record.thread) # << >>
                  THEN (IF opts.ignoreCase THEN toLowerCase(Get(record.thread))
                        ELSE Get(record.thread))
                  ELSE << >>
      threadOk == threadNeedle(opts) = Null
                  \/ Includes(haystack, Get(threadNeedle(opts)))
      keywordOk == Len(opts.keywords) = 0
                   \/ \E i \in 1..Len(opts.keywords) :
                        Includes(getText(record, opts.ignoreCase), keywordNeedles(opts)[i])
  IN fromOk /\ toOk /\ levelOk /\ threadOk /\ keywordOk

\* -------------------------------------------------------- createPrinter
\* One printer call: the role and every field of the record the printer
\* reads (the JSON payload; the text form prints the label and `lines`).
createPrinter(record, role) ==
  [role |-> role,
   index |-> record.index,
   startLine |-> record.startLine,
   endLine |-> record.endLine,
   time |-> record.timestampRaw,
   level |-> record.level,
   thread |-> record.thread,
   location |-> record.location,
   message |-> record.message,
   lines |-> record.lines]

\* labelForRole[role] ?? '[LOG]'
labelForRole(role) ==
  CASE role = "match" -> ""
    [] role = "context-before" -> "[BEFORE]"
    [] role = "context-after" -> "[AFTER]"
    [] OTHER -> "[LOG]"

\* The chunks the text form writes to stdout for one printer call: the
\* label joined to the first line, then every other line as it is.  A
\* record without lines prints the label and "undefined".
printText(call) ==
  IF Len(call.lines) = 0
  THEN <<[label |-> labelForRole(call.role), line |-> <<"undefined">>]>>
  ELSE [i \in 1..Len(call.lines) |->
          [label |-> IF i = 1 THEN labelForRole(call.role) ELSE "",
           line |-> call.lines[i]]]

\* ---------------------------------------------- serializeRecordForIndex
\* serializeRecordForIndex that copies the _printed flag as well
serializeRecordForIndexPrinted(record) ==
  [index |-> record.index,
   startLine |-> record.startLine,
   endLine |-> record.endLine,
   timestampRaw |-> record.timestampRaw,
   timestampMs |-> record.timestampMs,
   level |-> record.level,
   pid |-> record.pid,
   thread |-> record.thread,
   location |-> record.location,
   message |-> record.message,
   lines |-> record.lines,
   printed |-> record.printed]

\* The JSON line of a record, represented by the object it encodes.
serializeRecordForIndex(record) ==
  [index |-> record.index,
   startLine |-> record.startLine,
   endLine |-> record.endLine,
   timestampRaw |-> record.timestampRaw,
   timestampMs |-> record.timestampMs,
   level |-> record.level,
   pid |-> record.pid,
   thread |-> record.thread,
   location |-> record.location,
   message |-> record.message,
   lines |-> record.lines]

\* ------------------------------------------------------------ options
\* --keyword Boom (case-insensitive)
FilterKeyword ==
  [levels |-> << >>, keywords |-> << <<"Boom">> >>, thread |-> Null,
   fromMs |-> Null, toMs |-> Null, ignoreCase |-> TRUE]

\* --level info error --thread t --from/--to the second timestamp,
\* case-sensitive
FilterHeader ==
  [levels |-> <<"info", "error">>, keywords |-> << >>, thread |-> Some(<<"t">>),
   fromMs |-> Some(1000), toMs |-> Some(1000), ignoreCase |-> FALSE]

Filters == {FilterKeyword, FilterHeader}

\* program.opts(): the values main() hands to processFile / processIndex
Options ==
  [contextBefore : 0..MaxContext, contextAfter : 0..MaxContext,
   filter : Filters, writeIndexPath : BOOLEAN]

VARIABLES
  pc,            \* "scan": processFile reads lines; "index": processIndex
                 \* reads the index that was written; "done"
  options,       \* the options of the run (both runs use the same ones)
  input,         \* the lines readline has delivered to processFile so far
  finalized,     \* the records processFile has finalized, in that order
  processFile,   \* the locals of processFile, and the printer calls made
  processIndex,  \* the locals of processIndex, and the printer calls made
  indexSink,     \* the index write stream: needDrain (a write returned
                 \* false and 'drain' has not been emitted), awaitDrain
                 \* (finalizeRecord is suspended in once(.., 'drain')),
                 \* ended (end() was called), finished (its callback ran)
  stdout,        \* process.stdout: needDrain as above, error (the code of
                 \* the 'error' event it has emitted, if any)
  process,       \* exitCode (set once the process has exited) and the
                 \* messages written to stderr
  probe,         \* one evaluation of the filter on one record: the filter
                 \* options, the record, the result and the printer calls
  fs,            \* the files main() finds: the command line that names
                 \* them, what is there and readable, the index file made
  analyzer,      \* a run of the file-structure analyzer
  obfuscator     \* a run of the log obfuscator

vars == <<pc, options, input, finalized, processFile, processIndex,
          indexSink, stdout, process, probe, fs, analyzer, obfuscator>>

\* the metadata line written first to the index
meta ==
  [type |-> "meta", file |-> "/logs/app.log", size |-> Some("stat.size"),
   mtimeMs |-> Some("stat.mtimeMs"), generatedAt |-> "now"]

\* ------------------------------------------- processFile.finalizeRecord
\* The record as finalizeRecord freezes it: index and joined message set.
finalizeFields(s, record) ==
  [record EXCEPT !.index = s.recordIndex + 1,
                 !.message = IF Len(record.messageLines) > 0
                             THEN Join(record.messageLines) ELSE << >>]

\* printBefore without the _printed test
printBeforeAll(beforeBuffer) ==
  [i \in 1..Len(beforeBuffer) |-> createPrinter(beforeBuffer[i], "context-before")]

\* printBefore walking the buffer from its newest record to its oldest
printBeforeReversed(beforeBuffer) ==
  LET unprinted == SelectSeq(beforeBuffer, LAMBDA ctx : ~ctx.printed)
  IN [i \in 1..Len(unprinted) |->
        createPrinter(unprinted[Len(unprinted) + 1 - i], "context-before")]

\* for (const ctx of beforeBuffer) if (!ctx._printed) printer(ctx, 'context-before')
printBefore(beforeBuffer) ==
  LET unprinted == SelectSeq(beforeBuffer, LAMBDA ctx : ~ctx.printed)
  IN [i \in 1..Len(unprinted) |-> createPrinter(unprinted[i], "context-before")]

\* the before-context loop without `ctx._printed = true`
markPrintedNone(beforeBuffer) == beforeBuffer

markPrinted(beforeBuffer) ==
  [i \in 1..Len(beforeBuffer) |-> [beforeBuffer[i] EXCEPT !.printed = TRUE]]

\* pushBefore that never evicts
pushBeforeNoShift(beforeBuffer, record, contextBeforeCount) ==
  IF contextBeforeCount > 0 THEN Append(beforeBuffer, record) ELSE beforeBuffer

\* pushBefore that evicts one record too early (>= for >)
pushBeforeOffByOne(beforeBuffer, record, contextBeforeCount) ==
  IF contextBeforeCount > 0
  THEN LET pushed == Append(beforeBuffer, record)
       IN IF Len(pushed) >= contextBeforeCount THEN Tail(pushed) ELSE pushed
  ELSE beforeBuffer

\* pushBefore that drops the newest record, not the oldest, on overflow
pushBeforeDropsNewest(beforeBuffer, record, contextBeforeCount) ==
  IF contextBeforeCount > 0
  THEN IF Len(beforeBuffer) >= contextBeforeCount THEN beforeBuffer
       ELSE Append(beforeBuffer, record)
  ELSE beforeBuffer

\* beforeBuffer.push(record); shift() when longer than contextBeforeCount
pushBefore(beforeBuffer, record, contextBeforeCount) ==
  IF contextBeforeCount > 0
  THEN LET pushed == Append(beforeBuffer, record)
       IN IF Len(pushed) > contextBeforeCount THEN Tail(pushed) ELSE pushed
  ELSE beforeBuffer

\* nextCountdown that counts the match itself as one of the after slots
nextCountdownOffByOne(afterCountdown, isMatch, contextAfterCount) ==
  IF isMatch THEN Max(contextAfterCount - 1, 0)
  ELSE IF afterCountdown > 0 THEN afterCountdown - 1
  ELSE afterCountdown

\* nextCountdown that does not restart while a window is still open
nextCountdownNoRestart(afterCountdown, isMatch, contextAfterCount) ==
  IF afterCountdown > 0 THEN afterCountdown - 1
  ELSE IF isMatch THEN contextAfterCount
  ELSE afterCountdown

\* the after-context countdown after a record has been handled
nextCountdown(afterCountdown, isMatch, contextAfterCount) ==
  IF isMatch THEN contextAfterCount
  ELSE IF afterCountdown > 0 THEN afterCountdown - 1
  ELSE afterCountdown

finalizeRecord(s, current, opts) ==
  IF current = Null THEN s
  ELSE
    LET record == finalizeFields(s, Get(current))
        isMatch == createFilter(opts.filter, record)
        flush == isMatch /\ opts.contextBefore > 0
        before == IF flush THEN printBefore(s.beforeBuffer) ELSE << >>
        buffer == IF flush THEN markPrinted(s.beforeBuffer) ELSE s.beforeBuffer
        shouldPrintAsAfter == ~isMatch /\ s.afterCountdown > 0
        emit == (isMatch \/ shouldPrintAsAfter) /\ ~record.printed
        own == IF emit
               THEN <<createPrinter(record, IF isMatch THEN "match" ELSE "context-after")>>
               ELSE << >>
        emitted == [record EXCEPT !.printed = @ \/ emit]
    IN [s EXCEPT
          !.recordIndex = @ + 1,
          !.totalRecords = @ + 1,
          !.printer = @ \o before \o own,
          !.matchCount = IF isMatch THEN @ + 1 ELSE @,
          !.afterCountdown = nextCountdown(@, isMatch, opts.contextAfter),
          !.beforeBuffer = pushBefore(buffer, emitted, opts.contextBefore),
          !.indexStream = IF @ = Null THEN Null
                          ELSE Some(Append(Get(@), serializeRecordForIndex(emitted)))]

\* ------------------------------------------ processIndex.finalizeRecord
indexFinalizeRecord(s, parsedRecord, opts) ==
  LET record == [parsedRecord EXCEPT !.index = s.recordIndex + 1]
      isMatch == createFilter(opts.filter, record)
      flush == isMatch /\ opts.contextBefore > 0
      before == IF flush THEN printBefore(s.beforeBuffer) ELSE << >>
      buffer == IF flush THEN markPrinted(s.beforeBuffer) ELSE s.beforeBuffer
      shouldPrintAsAfter == ~isMatch /\ s.afterCountdown > 0
      emit == (isMatch \/ shouldPrintAsAfter) /\ ~record.printed
      own == IF emit
             THEN <<createPrinter(record, IF isMatch THEN "match" ELSE "context-after")>>
             ELSE << >>
      emitted == [record EXCEPT !.printed = @ \/ emit]
  IN [s EXCEPT
        !.recordIndex = @ + 1,
        !.totalRecords = @ + 1,
        !.printer = @ \o before \o own,
        !.matchCount = IF isMatch THEN @ + 1 ELSE @,
        !.afterCountdown = nextCountdown(@, isMatch, opts.contextAfter),
        !.beforeBuffer = pushBefore(buffer, emitted, opts.contextBefore)]

\* `parsed.name ?? default`
Field(parsed, name, default) ==
  IF name \in DOMAIN parsed THEN parsed[name] ELSE default

\* indexRecord whose typeof test never accepts the stored timestampMs
indexRecordNoMs(parsed) ==
  LET message == Field(parsed, "message", << >>)
  IN [index |-> Field(parsed, "index", 0),
      startLine |-> Field(parsed, "startLine", 0),
      endLine |-> Field(parsed, "endLine", Field(parsed, "startLine", 0)),
      timestampRaw |-> IF Field(parsed, "timestampRaw", Null) # Null
                       THEN parsed.timestampRaw
                       ELSE Field(parsed, "time", Null),
      timestampMs |-> Null,
      level |-> Field(parsed, "level", Null),
      pid |-> Field(parsed, "pid", Null),
      thread |-> Field(parsed, "thread", Null),
      location |-> Field(parsed, "location", Null),
      message |-> message,
      messageLines |-> IF "messageLines" \in DOMAIN parsed THEN parsed.messageLines
                       ELSE IF message # << >> THEN Split(message)
                       ELSE << >>,
      lines |-> Field(parsed, "lines", << >>),
      printed |-> FALSE]

\* the record processIndex rebuilds from one parsed index line
indexRecord(parsed) ==
  LET message == Field(parsed, "message", << >>)
  IN [index |-> Field(parsed, "index", 0),
      startLine |-> Field(parsed, "startLine", 0),
      endLine |-> Field(parsed, "endLine", Field(parsed, "startLine", 0)),
      timestampRaw |-> IF Field(parsed, "timestampRaw", Null) # Null
                       THEN parsed.timestampRaw
                       ELSE Field(parsed, "time", Null),
      timestampMs |-> Field(parsed, "timestampMs", Null),
      level |-> Field(parsed, "level", Null),
      pid |-> Field(parsed, "pid", Null),
      thread |-> Field(parsed, "thread", Null),
      location |-> Field(parsed, "location", Null),
      message |-> message,
      messageLines |-> IF "messageLines" \in DOMAIN parsed THEN parsed.messageLines
                       ELSE IF message # << >> THEN Split(message)
                       ELSE << >>,
      lines |-> Field(parsed, "lines", << >>),
      printed |-> FALSE]

\* ------------------------------------------------------------- actions
\* the locals of processFile when the first record is finalized
FreshScan ==
  [beforeBuffer |-> << >>, afterCountdown |-> 0, recordIndex |-> 0,
   totalRecords |-> 0, matchCount |-> 0, current |-> Null,
   lineNumber |-> 0, printer |-> << >>, indexStream |-> Null]

\* a write stream every write of which has returned true so far
IdleSink ==
  [needDrain |-> FALSE, awaitDrain |-> FALSE, ended |-> FALSE, finished |-> FALSE]

\* process.stdout with a consumer that reads
IdleStdout == [needDrain |-> FALSE, error |-> Null]

\* the process before it exits: no exit code yet, nothing on stderr
Running == [exitCode |-> Null, stderr |-> << >>]

\* The raw scan with sinks that accept every write and a consumer that
\* stays: no write returns false, process.stdout emits no error.
Init ==
  /\ pc = "scan"
  /\ options \in Options
  /\ input = << >>
  /\ finalized = << >>
  /\ processFile =
       [beforeBuffer |-> << >>, afterCountdown |-> 0, recordIndex |-> 0,
        totalRecords |-> 0, matchCount |-> 0, current |-> Null,
        lineNumber |-> 0, printer |-> << >>,
        indexStream |-> IF options.writeIndexPath THEN Some(<<meta>>) ELSE Null]
  /\ processIndex =
       [beforeBuffer |-> << >>, afterCountdown |-> 0, recordIndex |-> 0,
        totalRecords |-> 0, matchCount |-> 0, meta |-> Null,
        lineNumber |-> 0, printer |-> << >>]
  /\ indexSink = IdleSink
  /\ stdout = IdleStdout
  /\ process = Running
  /\ probe = Null
  /\ fs = Null
  /\ analyzer = Null
  /\ obfuscator = Null

\* what finalizeRecord(current) adds to the finalized records
finalizedWith(current) ==
  IF current = Null THEN finalized
  ELSE Append(finalized, finalizeFields(processFile, Get(current)))

\* a loop body that finalizes the open record at a start line and then
\* goes on appending to that same record
ScanLineKeepsOpen(line) ==
  /\ LET lineNumber == processFile.lineNumber + 1
         s == [processFile EXCEPT !.lineNumber = lineNumber]
     IN IF s.current # Null
        THEN /\ processFile' =
                  [(IF isStart(line) THEN finalizeRecord(s, s.current, options) ELSE s)
                     EXCEPT !.current = Some(appendLine(Get(s.current), line, lineNumber))]
             /\ finalized' = IF isStart(line) THEN finalizedWith(s.current) ELSE finalized
        ELSE /\ processFile' =
                  [s EXCEPT !.current = Some(createRecord(line, lineNumber))]
             /\ finalized' = finalized
  /\ input' = Append(input, line)

\* the body of `for await (const line of rl)` in processFile
ScanLine(line) ==
  /\ LET lineNumber == processFile.lineNumber + 1
         s == [processFile EXCEPT !.lineNumber = lineNumber]
     IN IF isStart(line)
        THEN /\ processFile' =
                  [finalizeRecord(s, s.current, options)
                     EXCEPT !.current = Some(createRecord(line, lineNumber))]
             /\ finalized' = finalizedWith(s.current)
        ELSE IF s.current # Null
        THEN /\ processFile' =
                  [s EXCEPT !.current = Some(appendLine(Get(@), line, lineNumber))]
             /\ finalized' = finalized
        ELSE /\ processFile' =
                  [s EXCEPT !.current = Some(createRecord(line, lineNumber))]
             /\ finalized' = finalized
  /\ input' = Append(input, line)

\* one iteration of `for await (const line of rl)` in processFile
ReadLine(line) ==
  /\ pc = "scan"
  /\ processFile.lineNumber < MaxLines
  /\ ScanLine(line)
  /\ UNCHANGED <<pc, options, processIndex, indexSink, stdout, process, probe,
                 fs, analyzer, obfuscator>>

\* `await finalizeRecord(current)` after the loop
ScanEnd ==
  /\ processFile' =
       [finalizeRecord(processFile, processFile.current, options)
          EXCEPT !.current = Null]
  /\ finalized' = finalizedWith(processFile.current)

\* the stream ends: the open record is finalized and the index is closed
EndOfInput ==
  /\ pc = "scan"
  /\ ScanEnd
  /\ pc' = IF options.writeIndexPath THEN "index" ELSE "done"
  /\ indexSink' = [indexSink EXCEPT !.ended = options.writeIndexPath,
                                    !.finished = options.writeIndexPath]
  /\ UNCHANGED <<options, input, processIndex, stdout, process, probe,
                 fs, analyzer, obfuscator>>

\* one iteration of `for await (const line of rl)` in processIndex, over
\* the index the raw scan has written
ReadIndexLine ==
  /\ pc = "index"
  /\ processIndex.lineNumber < Len(Get(processFile.indexStream))
  /\ LET lineNumber == processIndex.lineNumber + 1
         parsed == Get(processFile.indexStream)[lineNumber]
         s == [processIndex EXCEPT !.lineNumber = lineNumber]
     IN IF "type" \in DOMAIN parsed /\ parsed.type = "meta"
        THEN processIndex' = [s EXCEPT !.meta = Some(parsed)]
        ELSE processIndex' = indexFinalizeRecord(s, indexRecord(parsed), options)
  /\ UNCHANGED <<pc, options, input, finalized, processFile,
                 indexSink, stdout, process, probe, fs, analyzer, obfuscator>>

\* the index has been read to its end
EndOfIndex ==
  /\ pc = "index"
  /\ processIndex.lineNumber = Len(Get(processFile.indexStream))
  /\ pc' = "done"
  /\ UNCHANGED <<options, input, finalized, processFile, processIndex,
                 indexSink, stdout, process, probe, fs, analyzer, obfuscator>>

Next ==
  \/ \E line \in Lines : ReadLine(line)
  \/ EndOfInput
  \/ ReadIndexLine
  \/ EndOfIndex

Spec == Init /\ [][Next]_vars

\* ============================================ the scan and its sinks
\* The raw scan with an index stream and a stdout that may signal a full
\* buffer on a write, and an output consumer that may go away.

\* the 'error' listener of process.stdout that always rethrows
onStdoutErrorRethrow(code) ==
  [exitCode |-> Some(1), stderr |-> <<code>>]

\* The 'error' listener of process.stdout: process.exit(0) on EPIPE; any
\* other error is rethrown, which ends the process with the uncaught
\* exception on stderr and exit code 1.
onStdoutError(code) ==
  IF code = "EPIPE"
  THEN [exitCode |-> Some(0), stderr |-> << >>]
  ELSE [exitCode |-> Some(1), stderr |-> <<code>>]

\* the error codes process.stdout may report
StdoutErrorCodes == {"EPIPE", "EIO"}

\* the runs followed with their sinks: those with equal context counts
IOOptions == {o \in Options : o.contextBefore = o.contextAfter}

\* As Init, but the write of the metadata line may have returned false:
\* its result is not looked at.
IOInit ==
  /\ pc = "scan"
  /\ options \in IOOptions
  /\ input = << >>
  /\ finalized = << >>
  /\ processFile =
       [FreshScan EXCEPT
          !.indexStream = IF options.writeIndexPath THEN Some(<<meta>>) ELSE Null]
  /\ processIndex =
       [beforeBuffer |-> << >>, afterCountdown |-> 0, recordIndex |-> 0,
        totalRecords |-> 0, matchCount |-> 0, meta |-> Null,
        lineNumber |-> 0, printer |-> << >>]
  /\ \E ok \in BOOLEAN :
       /\ ~options.writeIndexPath => ok
       /\ indexSink = [IdleSink EXCEPT !.needDrain = ~ok]
  /\ stdout = IdleStdout
  /\ process = Running
  /\ probe = Null
  /\ fs = Null
  /\ analyzer = Null
  /\ obfuscator = Null

\* What the writes of one step do to the sinks.  indexOk is the result of
\* indexStream.write for the record line, if one was written: on false
\* finalizeRecord awaits 'drain'.  stdoutOk is the result of the last
\* process.stdout.write of the printer, if it printed: nobody reads it.
Writes(indexOk, stdoutOk) ==
  LET wrote == processFile.indexStream # Null
               /\ Len(Get(processFile'.indexStream)) > Len(Get(processFile.indexStream))
      printed == Len(processFile'.printer) > Len(processFile.printer)
  IN /\ ~wrote => indexOk
     /\ ~printed => stdoutOk
     /\ indexSink' = IF wrote
                     THEN [indexSink EXCEPT !.needDrain = @ \/ ~indexOk,
                                            !.awaitDrain = ~indexOk]
                     ELSE indexSink
     /\ stdout' = [stdout EXCEPT !.needDrain = @ \/ ~stdoutOk]

\* one iteration of the loop of processFile; the loop does not go on while
\* finalizeRecord awaits 'drain' of the index stream
IOReadLine(line, indexOk, stdoutOk) ==
  /\ process.exitCode = Null
  /\ pc = "scan"
  /\ ~indexSink.awaitDrain
  /\ processFile.lineNumber < MaxLines
  /\ ScanLine(line)
  /\ Writes(indexOk, stdoutOk)
  /\ UNCHANGED <<pc, options, processIndex, process, probe,
                 fs, analyzer, obfuscator>>

\* the input ends: `await finalizeRecord(current)` after the loop
IOEndOfInput(indexOk, stdoutOk) ==
  /\ process.exitCode = Null
  /\ pc = "scan"
  /\ ~indexSink.awaitDrain
  /\ ScanEnd
  /\ Writes(indexOk, stdoutOk)
  /\ pc' = "finally"
  /\ UNCHANGED <<options, input, processIndex, process, probe,
                 fs, analyzer, obfuscator>>

\* the finally block: rl.close(), readStream.destroy(), indexStream.end(cb)
IOFinally ==
  /\ process.exitCode = Null
  /\ pc = "finally"
  /\ ~indexSink.awaitDrain
  /\ indexSink' = [indexSink EXCEPT !.ended = options.writeIndexPath]
  /\ pc' = IF options.writeIndexPath THEN "ending" ELSE "returned"
  /\ UNCHANGED <<options, input, finalized, processFile, processIndex,
                 stdout, process, probe, fs, analyzer, obfuscator>>

\* the callback of indexStream.end runs: processFile returns
IndexFinish ==
  /\ process.exitCode = Null
  /\ pc = "ending"
  /\ indexSink' = [indexSink EXCEPT !.finished = TRUE]
  /\ pc' = "returned"
  /\ UNCHANGED <<options, input, finalized, processFile, processIndex,
                 stdout, process, probe, fs, analyzer, obfuscator>>

\* main has returned and nothing is pending: the process ends, exit code 0
ProcessExit ==
  /\ process.exitCode = Null
  /\ pc = "returned"
  /\ process' = [process EXCEPT !.exitCode = Some(0)]
  /\ pc' = "done"
  /\ UNCHANGED <<options, input, finalized, processFile, processIndex,
                 indexSink, stdout, probe, fs, analyzer, obfuscator>>

\* the index stream emits 'drain' (never once end() has been called)
IndexDrain ==
  /\ process.exitCode = Null
  /\ indexSink.needDrain
  /\ ~indexSink.ended
  /\ indexSink' = [indexSink EXCEPT !.needDrain = FALSE, !.awaitDrain = FALSE]
  /\ UNCHANGED <<pc, options, input, finalized, processFile, processIndex,
                 stdout, process, probe, fs, analyzer, obfuscator>>

\* process.stdout emits 'drain'
StdoutDrain ==
  /\ process.exitCode = Null
  /\ stdout.needDrain
  /\ stdout' = [stdout EXCEPT !.needDrain = FALSE]
  /\ UNCHANGED <<pc, options, input, finalized, processFile, processIndex,
                 indexSink, process, probe, fs, analyzer, obfuscator>>

\* process.stdout emits 'error' for a write that was made
StdoutError(code) ==
  /\ process.exitCode = Null
  /\ Len(processFile.printer) > 0
  /\ stdout' = [stdout EXCEPT !.error = Some(code)]
  /\ process' = onStdoutError(code)
  /\ UNCHANGED <<pc, options, input, finalized, processFile, processIndex,
                 indexSink, probe, fs, analyzer, obfuscator>>

IONext ==
  \/ \E line \in Lines, indexOk \in BOOLEAN, stdoutOk \in BOOLEAN :
       IOReadLine(line, indexOk, stdoutOk)
  \/ \E indexOk \in BOOLEAN, stdoutOk \in BOOLEAN : IOEndOfInput(indexOk, stdoutOk)
  \/ IOFinally
  \/ IndexFinish
  \/ ProcessExit
  \/ IndexDrain
  \/ StdoutDrain
  \/ \E code \in StdoutErrorCodes : StdoutError(code)

SpecIO == IOInit /\ [][IONext]_vars

\* What the run can rely on: the loop of processFile goes on whenever it
\* is not suspended, with the next line or, the input being finite, with
\* its end; the finally block, the callback of end() and the end of main
\* follow; and the index stream emits 'drain' once it has signalled that
\* it is full.  Nothing is assumed of process.stdout.
IOFairness ==
  /\ WF_vars((\E line \in Lines, indexOk \in BOOLEAN, stdoutOk \in BOOLEAN :
                 IOReadLine(line, indexOk, stdoutOk))
             \/ (\E indexOk \in BOOLEAN, stdoutOk \in BOOLEAN :
                   IOEndOfInput(indexOk, stdoutOk)))
  /\ WF_vars(IOFinally)
  /\ WF_vars(IndexFinish)
  /\ WF_vars(ProcessExit)
  /\ WF_vars(IndexDrain)

SpecIOLive == IOInit /\ [][IONext]_vars /\ IOFairness

\* ====================================================== the filter alone
\* The records the parser builds from one first line and at most one
\* following line, as finalizeRecord hands them to the filter.
ProbeRecords ==
  LET heads == {createRecord(line, 1) : line \in Lines \cup {LineBare}}
  IN heads \cup {appendLine(r, line, 2) : r \in heads, line \in {LineTrace, LineBlank}}

\* the filter options main() builds from --level, --keyword, --thread,
\* --from, --to and --case-sensitive
ProbeFilters ==
  [levels : {<< >>, <<"error">>, <<"info", "error">>},
   keywords : {<< >>, << <<"Boom">> >>, << <<"boom">>, <<"ok">> >>},
   thread : {Null, Some(<<"t">>), Some(<<"T", "1">>)},
   fromMs : {Null, Some(0), Some(1000)},
   toMs : {Null, Some(0), Some(1000)},
   ignoreCase : BOOLEAN]

FilterInit ==
  /\ pc = "filter"
  /\ probe \in [opts : ProbeFilters, record : ProbeRecords,
                 isMatch : {Null}, printer : {<< >>}]
  /\ options = [contextBefore |-> 0, contextAfter |-> 0,
                filter |-> probe.opts, writeIndexPath |-> FALSE]
  /\ input = << >>
  /\ finalized = << >>
  /\ processFile = FreshScan
  /\ processIndex =
       [beforeBuffer |-> << >>, afterCountdown |-> 0, recordIndex |-> 0,
        totalRecords |-> 0, matchCount |-> 0, meta |-> Null,
        lineNumber |-> 0, printer |-> << >>]
  /\ indexSink = IdleSink
  /\ stdout = IdleStdout
  /\ process = Running
  /\ fs = Null
  /\ analyzer = Null
  /\ obfuscator = Null

\* filter(record) as finalizeRecord evaluates it, and what finalizeRecord
\* prints for the record when both context counts are 0
ApplyFilter ==
  /\ pc = "filter"
  /\ probe.isMatch = Null
  /\ probe' =
       [probe EXCEPT
          !.isMatch = Some(createFilter(options.filter,
                                        finalizeFields(processFile, probe.record))),
          !.printer = finalizeRecord(processFile, Some(probe.record), options).printer]
  /\ UNCHANGED <<pc, options, input, finalized, processFile, processIndex,
                 indexSink, stdout, process, fs, analyzer, obfuscator>>

FilterNext == ApplyFilter

SpecFilter == FilterInit /\ [][FilterNext]_vars

\* ================================================ reading an index file
\* processIndex over an index file of any content.  A line of the file is
\* its text as JSON.parse sees it: empty or not, and the value it encodes,
\* {} when the text is not valid JSON (the empty text is not).
IndexLineOf(value) == [empty |-> FALSE, json |-> Some(value)]
EmptyLine == [empty |-> TRUE, json |-> Null]
GarbageLine == [empty |-> FALSE, json |-> Null]

\* JSON.parse(line): {} stands for the SyntaxError it throws
JSONparse(line) == line.json

\* a metadata line; a file or an mtimeMs of {} is JSON null
metaLine(file, mtimeMs) ==
  [type |-> "meta", file |-> file, size |-> Some("stat.size"),
   mtimeMs |-> mtimeMs, generatedAt |-> "now"]

\* Metadata lines: of the live file (given by a relative path), of the live
\* file with an mtime 1 ms and 2 ms off, of another file, and one without
\* path whose mtime is 0.
IndexMetas ==
  {metaLine(Some("app.log"), Some(10)),
   metaLine(Some("/logs/app.log"), Some(11)),
   metaLine(Some("/logs/app.log"), Some(12)),
   metaLine(Some("/logs/other.log"), Some(10)),
   metaLine(Null, Some(0))}

\* record lines as the index writer serializes them
IndexRecords ==
  {serializeRecordForIndex(finalizeFields(FreshScan, createRecord(line, 1))) :
     line \in {LineError, LineInfo}}

\* the lines an index file is made of
IndexLines ==
  {IndexLineOf(value) : value \in IndexMetas \cup IndexRecords}
  \cup {EmptyLine, GarbageLine}

\* the path of the index file that is read
IndexPath == "/logs/app.idx"

\* path.resolve, with /logs as the working directory
pathResolve(p) == IF p = "app.log" THEN "/logs/app.log" ELSE p

\* The options of a run with --read-index.  expectedFile is the resolved
\* --file if that file exists, expectedStat its stat unless stat failed.
IndexOptions ==
  {o \in [contextBefore : 0..MaxContext, contextAfter : 0..MaxContext,
          filter : {FilterKeyword},
          expectedFile : {Null, Some("/logs/app.log")},
          expectedStat : {Null, Some([mtimeMs |-> 10])}] :
     /\ o.contextBefore = o.contextAfter
     /\ o.expectedFile = Null => o.expectedStat = Null}

\* the Error thrown for a line that JSON.parse rejects, with the line
\* number one too low
malformedIndexEntryZeroBased(indexPath, lineNumber) ==
  [error |-> "Malformed index entry", file |-> indexPath, line |-> lineNumber - 1]

\* new Error(`Malformed index entry at ${indexPath}:${lineNumber}: ...`)
malformedIndexEntry(indexPath, lineNumber) ==
  [error |-> "Malformed index entry", file |-> indexPath, line |-> lineNumber]

\* the catch of main: console.error and process.exitCode = 1
mainCatch(err) ==
  [exitCode |-> Some(1), stderr |-> <<[failed |-> "Failed to process log file", err |-> err]>>]

\* a staleness check that throws instead of warning
staleWarningsFatal(indexMeta, indexPath, expectedFile, expectedStat) ==
  <<[error |-> "stale"]>>

\* a staleness check that warns about any difference of the mtimes
staleWarningsExact(indexMeta, indexPath, expectedFile, expectedStat) ==
  IF indexMeta # Null /\ expectedFile # Null
  THEN LET normalizedMetaFile ==
             IF Get(indexMeta).file # Null THEN Some(pathResolve(Get(Get(indexMeta).file)))
             ELSE Null
           metaMtime == Get(indexMeta).mtimeMs
       IN IF normalizedMetaFile # Null /\ normalizedMetaFile # expectedFile
          THEN <<[warn |-> "was generated for", index |-> indexPath,
                  file |-> Get(normalizedMetaFile), current |-> Get(expectedFile)]>>
          ELSE IF /\ expectedStat # Null
                  /\ metaMtime # Null /\ Get(metaMtime) # 0
                  /\ Get(metaMtime) # Get(expectedStat).mtimeMs
          THEN <<[warn |-> "may be stale", index |-> indexPath]>>
          ELSE << >>
  ELSE << >>

\* The warnings processIndex writes once the index is read: one about the
\* path if the metadata names another file, else one about the mtime if it
\* is known on both sides and differs by more than 1.
staleWarnings(indexMeta, indexPath, expectedFile, expectedStat) ==
  IF indexMeta # Null /\ expectedFile # Null
  THEN LET normalizedMetaFile ==
             IF Get(indexMeta).file # Null THEN Some(pathResolve(Get(Get(indexMeta).file)))
             ELSE Null
           metaMtime == Get(indexMeta).mtimeMs
       IN IF normalizedMetaFile # Null /\ normalizedMetaFile # expectedFile
          THEN <<[warn |-> "was generated for", index |-> indexPath,
                  file |-> Get(normalizedMetaFile), current |-> Get(expectedFile)]>>
          ELSE IF /\ expectedStat # Null
                  /\ metaMtime # Null /\ Get(metaMtime) # 0
                  /\ (Get(metaMtime) - Get(expectedStat).mtimeMs > 1
                      \/ Get(expectedStat).mtimeMs - Get(metaMtime) > 1)
          THEN <<[warn |-> "may be stale", index |-> indexPath]>>
          ELSE << >>
  ELSE << >>

IndexInit ==
  /\ pc = "readIndex"
  /\ options \in IndexOptions
  /\ input = << >>
  /\ finalized = << >>
  /\ processFile = FreshScan
  /\ processIndex =
       [beforeBuffer |-> << >>, afterCountdown |-> 0, recordIndex |-> 0,
        totalRecords |-> 0, matchCount |-> 0, meta |-> Null,
        lineNumber |-> 0, printer |-> << >>]
  /\ indexSink = IdleSink
  /\ stdout = IdleStdout
  /\ process = Running
  /\ probe = Null
  /\ fs = Null
  /\ analyzer = Null
  /\ obfuscator = Null

\* One iteration of `for await (const line of rl)` in processIndex.  A line
\* that JSON.parse rejects throws out of processIndex into the catch of
\* main, and the process ends with exit code 1.
ReadIndexEntry(line) ==
  /\ pc = "readIndex"
  /\ processIndex.lineNumber < MaxIndexLines
  /\ input' = Append(input, line)
  /\ LET lineNumber == processIndex.lineNumber + 1
         s == [processIndex EXCEPT !.lineNumber = lineNumber]
         parsed == JSONparse(line)
     IN IF line.empty
        THEN processIndex' = s /\ UNCHANGED <<pc, process>>
        ELSE IF parsed = Null
        THEN /\ processIndex' = s
             /\ process' = mainCatch(malformedIndexEntry(IndexPath, lineNumber))
             /\ pc' = "exited"
        ELSE IF "type" \in DOMAIN Get(parsed) /\ Get(parsed).type = "meta"
        THEN processIndex' = [s EXCEPT !.meta = parsed] /\ UNCHANGED <<pc, process>>
        ELSE /\ processIndex' = indexFinalizeRecord(s, indexRecord(Get(parsed)), options)
             /\ UNCHANGED <<pc, process>>
  /\ UNCHANGED <<options, finalized, processFile, indexSink, stdout, probe,
                 fs, analyzer, obfuscator>>

\* The index is read to its end: the staleness warnings are written,
\* processIndex returns its counts and the process ends with exit code 0.
IndexConsumed ==
  /\ pc = "readIndex"
  /\ LET warnings == staleWarnings(processIndex.meta, IndexPath,
                                   options.expectedFile, options.expectedStat)
     IN process' =
          IF \E i \in 1..Len(warnings) : "error" \in DOMAIN warnings[i]
          THEN mainCatch(warnings[1])
          ELSE [exitCode |-> Some(0), stderr |-> warnings]
  /\ pc' = "exited"
  /\ UNCHANGED <<options, input, finalized, processFile, processIndex,
                 indexSink, stdout, probe, fs, analyzer, obfuscator>>

IndexNext ==
  \/ \E line \in IndexLines : ReadIndexEntry(line)
  \/ IndexConsumed

SpecIndex == IndexInit /\ [][IndexNext]_vars

\* =================================================== main before a run
\* What main() is started with: whether --read-index, --write-index and
\* --config are given, and the state of the files they and --file name.
\* "unreadable" is a file that exists and cannot be opened for reading,
\* "vanished" a source file that exists and cannot be stat'ed.  indexFile
\* is the content of the file at --write-index, {} while the run has not
\* created it.
Invocations ==
  [readIndex : BOOLEAN, writeIndex : BOOLEAN, configProvided : BOOLEAN,
   index : {"missing", "unreadable", "ok"},
   file : {"missing", "vanished", "unreadable", "ok"},
   config : {"missing", "unreadable", "unparsable", "ok"},
   indexFile : {Null}]

\* loadConfigFile: {} for the Error it throws, else what it returns
loadConfigFile(config, optional) ==
  IF config = "ok" THEN Some("config")
  ELSE IF optional /\ config = "missing" THEN Some("null")
  ELSE Null

MainInit ==
  /\ pc = "main"
  /\ fs \in Invocations
  /\ options = [contextBefore |-> 0, contextAfter |-> 0,
                filter |-> FilterKeyword, writeIndexPath |-> fs.writeIndex]
  /\ input = << >>
  /\ finalized = << >>
  /\ processFile = FreshScan
  /\ processIndex =
       [beforeBuffer |-> << >>, afterCountdown |-> 0, recordIndex |-> 0,
        totalRecords |-> 0, matchCount |-> 0, meta |-> Null,
        lineNumber |-> 0, printer |-> << >>]
  /\ indexSink = IdleSink
  /\ stdout = IdleStdout
  /\ process = Running
  /\ probe = Null
  /\ analyzer = Null
  /\ obfuscator = Null

\* main() up to the call of processFile or processIndex: each failed check
\* writes its message, sets process.exitCode = 1 and returns
Main ==
  /\ pc = "main"
  /\ LET usingIndexOnly == fs.readIndex
         err ==
           IF fs.readIndex /\ fs.writeIndex
           THEN Some("Cannot use --read-index and --write-index together. Choose one.")
           ELSE IF fs.readIndex /\ fs.index = "missing"
           THEN Some("Index file not found")
           ELSE IF ~usingIndexOnly /\ fs.file = "missing"
           THEN Some("Log file not found")
           ELSE IF ~usingIndexOnly /\ fs.file = "vanished"
           THEN Some("Failed to stat log file")
           ELSE IF ~usingIndexOnly
                   /\ loadConfigFile(fs.config, ~fs.configProvided) = Null
           THEN Some("Failed to read config")
           ELSE Null
     IN IF err # Null
        THEN /\ process' = [exitCode |-> Some(1), stderr |-> <<Get(err)>>]
             /\ pc' = "exited"
        ELSE /\ process' = process
             /\ pc' = IF usingIndexOnly THEN "processIndex" ELSE "processFile"
  /\ UNCHANGED <<options, input, finalized, processFile, processIndex,
                 indexSink, stdout, probe, fs, analyzer, obfuscator>>

\* processFile up to its loop: the read stream is created, the index
\* stream is created and the metadata line written to it, and the loop
\* starts.  If the source cannot be opened the loop throws at once, the
\* finally block ends the index stream and main's catch sets exit code 1.
ProcessFileStart ==
  /\ pc = "processFile"
  /\ processFile' =
       [processFile EXCEPT
          !.indexStream = IF fs.writeIndex THEN Some(<<meta>>) ELSE Null]
  /\ fs' = [fs EXCEPT !.indexFile = IF fs.writeIndex THEN Some(<<meta>>) ELSE @]
  /\ IF fs.file = "unreadable"
     THEN /\ process' = mainCatch([error |-> "EACCES", file |-> "/logs/app.log"])
          /\ indexSink' = [indexSink EXCEPT !.ended = fs.writeIndex,
                                            !.finished = fs.writeIndex]
          /\ pc' = "exited"
     ELSE /\ pc' = "scan"
          /\ UNCHANGED <<process, indexSink>>
  /\ UNCHANGED <<options, input, finalized, processIndex, stdout, probe,
                 analyzer, obfuscator>>

\* processIndex up to its loop; an index that cannot be opened makes the
\* loop throw at once
ProcessIndexStart ==
  /\ pc = "processIndex"
  /\ IF fs.index = "unreadable"
     THEN /\ process' = mainCatch([error |-> "EACCES", file |-> IndexPath])
          /\ pc' = "exited"
     ELSE /\ pc' = "readIndex"
          /\ UNCHANGED process
  /\ UNCHANGED <<options, input, finalized, processFile, processIndex,
                 indexSink, stdout, probe, fs, analyzer, obfuscator>>

MainNext ==
  \/ Main
  \/ ProcessFileStart
  \/ ProcessIndexStart

SpecMain == MainInit /\ [][MainNext]_vars

\* ======================================== the file-structure analyzer
\* (src/log-obfuscator/index.js lines 134-395)
\* A path below the scanned root is the sequence of its names; an entry of
\* a directory tree is a path with its kind.  The names sort as "a" < "b"
\* and none is on the ignore list.

\* logctx at rest, for the runs of the other tools
LogctxIdle ==
  /\ options = [contextBefore |-> 0, contextAfter |-> 0,
                filter |-> FilterKeyword, writeIndexPath |-> FALSE]
  /\ input = << >>
  /\ finalized = << >>
  /\ processFile = FreshScan
  /\ processIndex =
       [beforeBuffer |-> << >>, afterCountdown |-> 0, recordIndex |-> 0,
        totalRecords |-> 0, matchCount |-> 0, meta |-> Null,
        lineNumber |-> 0, printer |-> << >>]
  /\ indexSink = IdleSink
  /\ stdout = IdleStdout
  /\ process = Running
  /\ probe = Null
  /\ fs = Null

\* the default of --ignore
ignoreDefault == {"node_modules", ".git", ".vscode", ".idea", "target"}

\* what may be at a path with d levels left: nothing, a file, or a
\* directory with any tree of d - 1 levels below it
RECURSIVE TreesAt(_, _)
TreesAt(p, d) ==
  IF d = 0 THEN {{}}
  ELSE {{}, {[path |-> p, isDir |-> FALSE]}}
       \cup {{[path |-> p, isDir |-> TRUE]} \cup below \cup beside :
               below \in TreesAt(p \o <<"a">>, d - 1),
               beside \in TreesAt(p \o <<"b">>, d - 1)}

\* the directory trees that are scanned: MaxTreeDepth levels of "a" and "b"
Trees ==
  {x \cup y : x \in TreesAt(<<"a">>, MaxTreeDepth), y \in TreesAt(<<"b">>, MaxTreeDepth)}

\* the values of --depth: absent, or a number
DepthArgs == {Null} \cup {Some(d) : d \in 0..MaxTreeDepth}

\* parseInt(userDepth): {} is NaN
parseInt(userDepth) == userDepth

\* parseInt(userDepth) || 1000000
depthLimitOf(userDepth) ==
  IF parseInt(userDepth) = Null \/ Get(parseInt(userDepth)) = 0
  THEN 1000000
  ELSE Get(parseInt(userDepth))

\* fs.readdir(currentPath): the entries directly in the directory
readdir(tree, currentPath) ==
  {e \in tree : /\ Len(e.path) = Len(currentPath) + 1
                /\ SubSeq(e.path, 1, Len(currentPath)) = currentPath}

\* The entries traverseDirectory collects.  The order in which the
\* concurrent sub-traversals push their results is lost here: formatAsTree
\* sorts the entries by their paths, which are unique, and the summary
\* only counts.
RECURSIVE traverseDirectory(_, _, _, _, _)
traverseDirectory(tree, currentPath, depth, ignoreList, maxDepthLimit) ==
  LET nextDepth == depth + 1
      entries == {e \in readdir(tree, currentPath) :
                    e.path[Len(e.path)] \notin ignoreList}
  IN IF nextDepth > maxDepthLimit THEN {}
     ELSE {[name |-> e.path[Len(e.path)], path |-> e.path, depth |-> nextDepth,
            isDir |-> e.isDir] : e \in entries}
          \cup UNION {traverseDirectory(tree, e.path, nextDepth, ignoreList,
                                        maxDepthLimit) :
                        e \in {d \in entries : d.isDir}}

\* a.path.localeCompare(b.path) < 0 for paths of the names "a" and "b"
pathBefore(p, q) ==
  \/ Len(p) < Len(q) /\ SubSeq(q, 1, Len(p)) = p
  \/ \E i \in 1..Min(Len(p), Len(q)) :
       /\ SubSeq(p, 1, i - 1) = SubSeq(q, 1, i - 1)
       /\ p[i] = "a" /\ q[i] = "b"

\* entries.sort(...) of formatAsTree
sortEntries(entries) ==
  [i \in 1..Cardinality(entries) |->
     CHOOSE e \in entries :
       Cardinality({f \in entries : pathBefore(f.path, e.path)}) = i - 1]

\* The lines formatAsTree prints: prefix, connector and name of each entry.
\* "+-- " stands for the corner connector, "|-- " for the tee connector and
\* "|   " for the vertical bar of the prefix.
formatAsTree(entries) ==
  LET sorted == sortEntries(entries)
      isLastAt(i) == i = Len(sorted) \/ sorted[i + 1].depth <= sorted[i].depth
      isLastMap(p) == LET i == CHOOSE k \in 1..Len(sorted) : sorted[k].path = p
                      IN isLastAt(i)
  IN [i \in 1..Len(sorted) |->
        [prefix |-> [j \in 1..(sorted[i].depth - 1) |->
                       IF isLastMap(SubSeq(sorted[i].path, 1, j))
                       THEN "    " ELSE "|   "],
         connector |-> IF isLastAt(i) THEN "+-- " ELSE "|-- ",
         name |-> sorted[i].name,
         path |-> sorted[i].path]]

TreeInit ==
  /\ pc = "fsa"
  /\ analyzer \in [tree : Trees, depth : DepthArgs, stage : {"start"},
                    results : {{}}, output : {<< >>}, totalItems : {0},
                    totalFiles : {0}]
  /\ obfuscator = Null
  /\ LogctxIdle

\* the action of fsa up to the end of the traversal
FsaTraverse ==
  /\ pc = "fsa"
  /\ analyzer.stage = "start"
  /\ analyzer' =
       [analyzer EXCEPT
          !.stage = "traversed",
          !.results = traverseDirectory(analyzer.tree, << >>, 0, ignoreDefault,
                                        depthLimitOf(analyzer.depth))]
  /\ UNCHANGED <<pc, options, input, finalized, processFile, processIndex,
                 indexSink, stdout, process, probe, fs, obfuscator>>

\* the tree and the summary are printed
FsaReport ==
  /\ pc = "fsa"
  /\ analyzer.stage = "traversed"
  /\ analyzer' =
       [analyzer EXCEPT
          !.stage = "done",
          !.output = IF Cardinality(analyzer.results) > 0
                     THEN formatAsTree(analyzer.results) ELSE << >>,
          !.totalItems = Cardinality(analyzer.results),
          !.totalFiles = Cardinality({e \in analyzer.results : ~e.isDir})]
  /\ UNCHANGED <<pc, options, input, finalized, processFile, processIndex,
                 indexSink, stdout, process, probe, fs, obfuscator>>

TreeNext ==
  \/ FsaTraverse
  \/ FsaReport

SpecTree == TreeInit /\ [][TreeNext]_vars

\* ================================================= the log obfuscator
\* (src/log-obfuscator/index.js lines 1-133)
\* The text of a file is a sequence of pieces: "x" is text without
\* sensitive data, "ip=10.0" and ".0.1;" are the two halves of
\* "ip=10.0.0.1;", and NL ends a line.  The read stream cuts its chunks
\* between pieces, so an IP address can span two chunks.  A path is the
\* sequence of its names below the working directory.

Pieces == {"x", "ip=10.0", ".0.1;", NL}

\* The patterns, by what their regular expressions match in a line of
\* pieces: the IP pattern matches the address of "ip=10.0" followed by
\* ".0.1;" and nothing else; no piece holds an "@" or thirteen digits, so
\* the other two match nothing.
defaultPatterns ==
  << [name |-> "IP Address", regex |-> Some(<<"ip=10.0", ".0.1;">>),
      replacement |-> <<"ip=[IP_REDACTED];">>],
     [name |-> "Email", regex |-> Null, replacement |-> <<"[EMAIL_REDACTED]">>],
     [name |-> "Credit Card", regex |-> Null,
      replacement |-> <<"[CREDIT_CARD_REDACTED]">>] >>

\* line.replace(pattern.regex, pattern.replacement) with a global regex
RECURSIVE replace(_, _)
replace(line, pattern) ==
  IF pattern.regex = Null THEN line
  ELSE LET m == Get(pattern.regex)
       IN IF Len(line) < Len(m) THEN line
          ELSE IF SubSeq(line, 1, Len(m)) = m
          THEN pattern.replacement
               \o replace(SubSeq(line, Len(m) + 1, Len(line)), pattern)
          ELSE <<Head(line)>> \o replace(Tail(line), pattern)

RECURSIVE obfuscateLine(_, _)
obfuscateLine(line, patterns) ==
  IF patterns = << >> THEN line
  ELSE obfuscateLine(replace(line, Head(patterns)), Tail(patterns))

\* lines.forEach(line => writeStream.write(obfuscateLine(line) + NL)),
\* as the text written
RECURSIVE writeLines(_, _)
writeLines(textLines, patterns) ==
  IF textLines = << >> THEN << >>
  ELSE obfuscateLine(Head(textLines), patterns) \o <<NL>>
       \o writeLines(Tail(textLines), patterns)

\* a 'data' handler that forgets the partial line of the chunk before
onDataNoLeftover(leftover, chunk, patterns) ==
  LET pieces == Split(chunk)
  IN [leftover |-> pieces[Len(pieces)],
      written |-> writeLines(SubSeq(pieces, 1, Len(pieces) - 1), patterns)]

\* The 'data' handler of processLogFile: the new leftover and the text it
\* writes.
onData(leftover, chunk, patterns) ==
  LET pieces == Split(leftover \o chunk)
  IN [leftover |-> pieces[Len(pieces)],
      written |-> writeLines(SubSeq(pieces, 1, Len(pieces) - 1), patterns)]

InputPath == <<"in">>
OutputPath == <<"out">>
dirname(p) == SubSeq(p, 1, Len(p) - 1)
basename(p) == p[Len(p)]

\* every text of at most MaxChars pieces
Texts == UNION {[1..n -> Pieces] : n \in 0..MaxChars}

\* the texts of the two files of the input directories
TextOfA == <<"x", NL, "ip=10.0", ".0.1;">>
TextOfB == <<"ip=10.0", ".0.1;", NL, "x">>

\* What obfu is started on: a single file of any text, a directory that
\* may hold the file a and the directory sub, which may hold the file b,
\* or a path that does not exist; with or without --output, whose
\* directory may exist or not.
ObfuInputs ==
  {[inFiles |-> (InputPath :> t), inDirs |-> {}, output |-> out,
    outDirs |-> {<< >>}] :
      t \in Texts, out \in {Null, Some(OutputPath)}}
  \cup
  {[inFiles |-> [f \in ({<<"in", "a">> : x \in {1} \cap {IF a THEN 1 ELSE 0}}
                        \cup {<<"in", "sub", "b">> : x \in {1} \cap {IF sub = 2 THEN 1 ELSE 0}})
                   |-> IF f = <<"in", "a">> THEN TextOfA ELSE TextOfB],
    inDirs |-> {InputPath} \cup (IF sub > 0 THEN {<<"in", "sub">>} ELSE {}),
    output |-> out,
    outDirs |-> {<< >>} \cup (IF outExists THEN {OutputPath} ELSE {})] :
      a \in BOOLEAN, sub \in 0..2, out \in {Null, Some(OutputPath)},
      outExists \in BOOLEAN}
  \cup
  {[inFiles |-> << >>, inDirs |-> {}, output |-> Null, outDirs |-> {<< >>}]}

ObfuInit ==
  /\ pc = "obfu"
  /\ \E i \in ObfuInputs :
       obfuscator =
         [inFiles |-> i.inFiles, inDirs |-> i.inDirs, output |-> i.output,
          patterns |-> defaultPatterns, outDirs |-> i.outDirs,
          outFiles |-> << >>, stdoutText |-> << >>, stderrText |-> << >>,
          stage |-> "stat", readdirs |-> {}, streams |-> << >>,
          exitCode |-> Null]
  /\ analyzer = Null
  /\ LogctxIdle

\* processLogFile(inputPath, outputPath, patterns): the two streams it
\* creates.  The write stream of a file opens after the code that created
\* it has run to its end; process.stdout needs no opening.
processLogFile(inputPath, outputPath) ==
  [pos |-> 0, cuts |-> {}, leftover |-> << >>, ended |-> FALSE,
   outputPath |-> outputPath,
   wstate |-> IF outputPath = Null THEN "stdout" ELSE "opening",
   endCalled |-> FALSE, buffered |-> << >>]

\* writeStream.write(text) of the stream of the input file f
writeStream(o, f, text) ==
  LET st == o.streams[f]
  IN IF st.wstate = "stdout"
     THEN [o EXCEPT !.stdoutText = @ \o text]
     ELSE IF st.wstate = "opening"
     THEN [o EXCEPT !.streams[f].buffered = @ \o text]
     ELSE [o EXCEPT !.outFiles[Get(st.outputPath)] = @ \o text]

ObfuUnchanged ==
  UNCHANGED <<pc, options, input, finalized, processFile, processIndex,
              indexSink, stdout, process, probe, fs, analyzer>>

\* the callback of fs.stat in the action of obfu
StatCallback ==
  /\ pc = "obfu"
  /\ obfuscator.stage = "stat"
  /\ obfuscator' =
       IF InputPath \in DOMAIN obfuscator.inFiles
       THEN [obfuscator EXCEPT
               !.stage = "run",
               !.streams = (InputPath :> processLogFile(InputPath, obfuscator.output))]
       ELSE IF InputPath \in obfuscator.inDirs
       THEN [obfuscator EXCEPT
               !.stage = "run",
               !.readdirs = {[dir |-> InputPath, out |-> obfuscator.output]}]
       ELSE [obfuscator EXCEPT
               !.stage = "run",
               !.stderrText = @ \o <<"Input path error">>,
               !.exitCode = Some(1)]
  /\ ObfuUnchanged

\* The callback of fs.readdir in processDirectory: a stream pair for each
\* file, and for each directory mkdirSync of its output directory and the
\* next readdir.
ReaddirCallback(r) ==
  /\ pc = "obfu"
  /\ obfuscator.exitCode = Null
  /\ r \in obfuscator.readdirs
  /\ LET files == {f \in DOMAIN obfuscator.inFiles : dirname(f) = r.dir}
         dirs == {d \in obfuscator.inDirs : Len(d) > 0 /\ dirname(d) = r.dir}
         outOf(p) == IF r.out = Null THEN Null
                     ELSE Some(Get(r.out) \o <<basename(p)>>)
         mkdirSync(p) == {SubSeq(p, 1, k) : k \in 0..Len(p)}
     IN obfuscator' =
          [obfuscator EXCEPT
             !.streams = [f \in files |-> processLogFile(f, outOf(f))] @@ @,
             !.outDirs = @ \cup UNION {mkdirSync(Get(outOf(d))) :
                                        d \in {e \in dirs : outOf(e) # Null}},
             !.readdirs = (@ \ {r}) \cup {[dir |-> d, out |-> outOf(d)] : d \in dirs}]
  /\ ObfuUnchanged

\* The write stream of f opens its file: created empty when the directory
\* of the path exists, else the 'error' handler exits with 1.
OpenWrite(f) ==
  /\ pc = "obfu"
  /\ obfuscator.exitCode = Null
  /\ f \in DOMAIN obfuscator.streams
  /\ obfuscator.streams[f].wstate = "opening"
  /\ LET st == obfuscator.streams[f]
         target == Get(st.outputPath)
     IN obfuscator' =
          IF dirname(target) \in obfuscator.outDirs /\ target \notin obfuscator.outDirs
          THEN [obfuscator EXCEPT
                  !.outFiles = (target :> st.buffered) @@ @,
                  !.streams[f].buffered = << >>,
                  !.streams[f].wstate = IF st.endCalled THEN "closed" ELSE "open"]
          ELSE [obfuscator EXCEPT
                  !.streams[f].wstate = "failed",
                  !.stderrText = @ \o <<"Error writing file">>,
                  !.exitCode = Some(1)]
  /\ ObfuUnchanged

\* a 'data' event of the read stream of f with a chunk of n pieces
Data(f, n) ==
  /\ pc = "obfu"
  /\ obfuscator.exitCode = Null
  /\ f \in DOMAIN obfuscator.streams
  /\ LET st == obfuscator.streams[f]
         text == obfuscator.inFiles[f]
     IN /\ ~st.ended
        /\ n >= 1
        /\ st.pos + n <= Len(text)
        /\ LET d == onData(st.leftover, SubSeq(text, st.pos + 1, st.pos + n),
                           obfuscator.patterns)
           IN obfuscator' =
                [writeStream(obfuscator, f, d.written) EXCEPT
                   !.streams[f].pos = st.pos + n,
                   !.streams[f].cuts = @ \cup {st.pos + n},
                   !.streams[f].leftover = d.leftover]
  /\ ObfuUnchanged

\* the 'end' event of the read stream of f
End(f) ==
  /\ pc = "obfu"
  /\ obfuscator.exitCode = Null
  /\ f \in DOMAIN obfuscator.streams
  /\ LET st == obfuscator.streams[f]
         flushed == IF st.leftover # << >>
                    THEN writeStream(obfuscator, f,
                           obfuscateLine(st.leftover, obfuscator.patterns) \o <<NL>>)
                    ELSE obfuscator
     IN /\ ~st.ended
        /\ st.pos = Len(obfuscator.inFiles[f])
        /\ obfuscator' =
             [flushed EXCEPT
                !.streams[f].ended = TRUE,
                !.streams[f].endCalled = (st.outputPath # Null),
                !.streams[f].wstate = IF @ = "open" THEN "closed" ELSE @]
  /\ ObfuUnchanged

ObfuNext ==
  \/ StatCallback
  \/ \E r \in obfuscator.readdirs : ReaddirCallback(r)
  \/ \E f \in DOMAIN obfuscator.streams : OpenWrite(f)
  \/ \E f \in DOMAIN obfuscator.streams, n \in 1..(MaxChars + 1) : Data(f, n)
  \/ \E f \in DOMAIN obfuscator.streams : End(f)

SpecObfu == ObfuInit /\ [][ObfuNext]_vars

\* ============================================================ properties
\* the printer calls of the raw scan, and the positions of record k in them
calls == processFile.printer

callsOf(k) == {i \in 1..Len(calls) : calls[i].index = k}

\* record k of the raw scan satisfies the filter
isMatchAt(k) == createFilter(options.filter, finalized[k])

matchesSoFar == {k \in 1..Len(finalized) : isMatchAt(k)}

\* record k is inside the after-window / the before-window of a match,
\* M being the set of the matches
inAfterWindow(M, k) ==
  \E m \in M : m < k /\ k - m <= options.contextAfter

inBeforeWindow(M, k) ==
  \E m \in M : k < m /\ m - k <= options.contextBefore

noRepeat(printer) ==
  \A i, j \in 1..Len(printer) : printer[i].index = printer[j].index => i = j

increasing(printer) ==
  \A i \in 1..(Len(printer) - 1) : printer[i].index < printer[i + 1].index

\* the index lines that are records (all but the metadata line)
indexRecords ==
  IF processFile.indexStream = Null THEN << >> ELSE Tail(Get(processFile.indexStream))

RECURSIVE Flatten(_)
Flatten(arrs) == IF Len(arrs) = 0 THEN << >> ELSE arrs[1] \o Flatten(Tail(arrs))

\* C1: when the index written by the raw scan has been read back with the
\* same filter and context counts, the printer has received the same calls
\* (same roles, same record fields, same order) as in the raw scan.
C1_Parity ==
  (pc = "done" /\ options.writeIndexPath) => processIndex.printer = processFile.printer

C1_Witness ==
  /\ pc = "done"
  /\ options.writeIndexPath
  /\ \E i, j, k \in 1..Len(processIndex.printer) :
       /\ processIndex.printer[i].role = "context-before"
       /\ processIndex.printer[j].role = "match"
       /\ processIndex.printer[k].role = "context-after"
  /\ \E i \in 1..Len(processIndex.printer) : Len(processIndex.printer[i].lines) > 1

\* C2: no record is passed to the printer twice, in the raw scan and in
\* the index read alike.
C2_NoDoubleEmission == noRepeat(processFile.printer) /\ noRepeat(processIndex.printer)

C2_Witness ==
  /\ options.contextBefore > 0
  /\ \E k \in 1..(Len(finalized) - 1) :
       /\ isMatchAt(k + 1)
       /\ \E i \in callsOf(k) : calls[i].role = "context-after"

\* C3: the records passed to the printer are exactly the matches, the
\* records at most contextAfter positions after a match and the records
\* at most contextBefore positions before a match.
C3_EmittedIsUnion ==
  LET M == matchesSoFar
  IN {calls[i].index : i \in 1..Len(calls)} =
       {k \in 1..Len(finalized) : k \in M \/ inAfterWindow(M, k) \/ inBeforeWindow(M, k)}

C3_Witness ==
  /\ pc = "done"
  /\ \E k \in 1..Len(finalized) : callsOf(k) = {}
  /\ \E i, j \in 1..Len(calls) :
       calls[i].role = "context-before" /\ calls[j].role = "context-after"

\* C4: a record the filter matches is emitted, with role match, and never
\* with another role.
C4_MatchRole ==
  \A k \in matchesSoFar :
    /\ callsOf(k) # {}
    /\ \A i \in callsOf(k) : calls[i].role = "match"

C4_Witness ==
  /\ options.contextBefore > 0
  /\ options.contextAfter > 0
  /\ \E k \in 2..(Len(finalized) - 1) : {k - 1, k, k + 1} \subseteq matchesSoFar

\* a non-matching record inside the after-window of an earlier match and
\* inside the before-window of a later match
inBothWindows(M, k) == k \notin M /\ inAfterWindow(M, k) /\ inBeforeWindow(M, k)

\* C5 as stated: such a record is emitted with role before-context.
C5_BeforeWins ==
  LET M == matchesSoFar
  IN \A k \in 1..Len(finalized) :
       inBothWindows(M, k) => \A i \in callsOf(k) : calls[i].role = "context-before"

\* C5 as amended: such a record is emitted once, with role after-context,
\* the role it gets when it is finalized; the later match does not emit
\* it again.
C5_AfterWins ==
  LET M == matchesSoFar
  IN \A k \in 1..Len(finalized) :
       inBothWindows(M, k) =>
         /\ callsOf(k) # {}
         /\ \A i \in callsOf(k) : calls[i].role = "context-after"

C5_Witness ==
  \E k \in 1..Len(finalized) : inBothWindows(matchesSoFar, k) /\ callsOf(k) # {}

\* the number of before-context calls that immediately precede call i
beforeRun(i) ==
  LET stops == {j \in 1..(i - 1) : calls[j].role # "context-before"}
  IN IF stops = {} THEN i - 1
     ELSE i - 1 - (CHOOSE j \in stops : \A h \in stops : h <= j)

\* the last record emitted before the before-context calls of call i
lastEmittedBefore(i) ==
  IF i - beforeRun(i) - 1 >= 1 THEN calls[i - beforeRun(i) - 1].index ELSE 0

\* C6: with contextBefore > 0, the before-context records emitted at a
\* match m are the min(contextBefore, m - 1 - e) records right before m,
\* e being the last record emitted earlier (0 when there is none).
C6_BeforeBound ==
  options.contextBefore > 0 =>
    \A i \in 1..Len(calls) :
      calls[i].role = "match" =>
        LET m == calls[i].index
        IN /\ beforeRun(i) = Min(options.contextBefore, m - 1 - lastEmittedBefore(i))
           /\ \A j \in 1..beforeRun(i) : calls[i - j].index = m - j

C6_Witness ==
  /\ options.contextBefore > 1
  /\ \E i \in 1..Len(calls) :
       /\ calls[i].role = "match"
       /\ beforeRun(i) = 1
       /\ lastEmittedBefore(i) > 0
       /\ calls[i - beforeRun(i) - 1].role = "context-after"

\* C7: when at most contextAfter non-matching records separate two
\* matches, every record from the first to the second is emitted exactly
\* once and consecutively, and the contextAfter records after the second
\* match (as far as they exist) are emitted exactly once too.
C7_AfterRestart ==
  LET M == matchesSoFar
  IN \A a, b \in M :
       (a < b /\ b - a - 1 <= options.contextAfter
          /\ \A k \in (a + 1)..(b - 1) : k \notin M) =>
         /\ \A k \in a..b : Cardinality(callsOf(k)) = 1
         /\ \A k \in a..(b - 1) :
              \A i \in callsOf(k) : i < Len(calls) /\ calls[i + 1].index = k + 1
         /\ \A k \in (b + 1)..Min(b + options.contextAfter, Len(finalized)) :
              Cardinality(callsOf(k)) = 1

C7_Witness ==
  \E a, b \in matchesSoFar :
    /\ a < b
    /\ b - a - 1 >= 1
    /\ b - a - 1 < options.contextAfter
    /\ \A k \in (a + 1)..(b - 1) : ~isMatchAt(k)
    /\ b + 1 <= Len(finalized)
    /\ ~isMatchAt(b + 1)
    /\ callsOf(b + 1) # {}

\* C8: the printer sees strictly increasing sequence indexes, the index
\* file receives the records 1, 2, 3, ... in that order, and the records
\* are finalized in the order of their lines.
C8_InputOrder ==
  /\ increasing(processFile.printer)
  /\ increasing(processIndex.printer)
  /\ \A k \in 1..Len(indexRecords) : indexRecords[k].index = k
  /\ \A k \in 1..(Len(finalized) - 1) :
       finalized[k].index < finalized[k + 1].index
       /\ finalized[k].startLine < finalized[k + 1].startLine

C8_Witness ==
  /\ pc = "done"
  /\ Len(indexRecords) >= 3
  /\ Len(calls) >= 3
  /\ \E i \in 1..Len(calls) : calls[i].role = "context-before"

\* C9: the lines of the finalized records, in sequence order, followed by
\* the lines of the record still open, are the lines read so far; once the
\* stream has ended they are the whole input.
C9_LinesRoundTrip ==
  /\ Flatten([k \in 1..Len(finalized) |-> finalized[k].lines])
       \o (IF processFile.current = Null THEN << >> ELSE Get(processFile.current).lines)
     = input
  /\ pc # "scan" =>
       Flatten([k \in 1..Len(finalized) |-> finalized[k].lines]) = input

C9_Witness ==
  /\ pc = "done"
  /\ Len(finalized) >= 2
  /\ \E i \in 1..Len(input) : input[i] = LineBlank
  /\ \E k \in 1..Len(finalized) : Len(finalized[k].lines) >= 2

\* C10: record k has sequence index k, 1 <= startLine <= endLine,
\* endLine - startLine + 1 lines, and starts right after record k - 1.
C10_IndexAndLineRanges ==
  \A k \in 1..Len(finalized) :
    /\ finalized[k].index = k
    /\ 1 <= finalized[k].startLine
    /\ finalized[k].startLine <= finalized[k].endLine
    /\ finalized[k].endLine - finalized[k].startLine + 1 = Len(finalized[k].lines)
    /\ k > 1 => finalized[k].startLine = finalized[k - 1].endLine + 1

C10_Witness ==
  /\ Len(finalized) >= 3
  /\ \E k \in 1..Len(finalized) : Len(finalized[k].lines) >= 2

\* ------------------------------------------------ the filter's criteria
\* the filter has been applied to the probed record, and its result
applied == probe.isMatch # Null
isMatch == Get(probe.isMatch)

\* which criteria the options specify
rangeGiven == probe.opts.fromMs # Null \/ probe.opts.toMs # Null
levelGiven == Len(probe.opts.levels) > 0
threadGiven == probe.opts.thread # Null /\ Get(probe.opts.thread) # << >>
keywordGiven == Len(probe.opts.keywords) > 0

\* text as it is compared in the mode of the probe
fold(text) == IF probe.opts.ignoreCase THEN toLowerCase(text) ELSE text

\* from <= timestampMs <= to over the bounds that are present
inRange ==
  /\ probe.record.timestampMs # Null
  /\ probe.opts.fromMs # Null =>
       Get(probe.opts.fromMs) <= Get(probe.record.timestampMs)
  /\ probe.opts.toMs # Null =>
       Get(probe.record.timestampMs) <= Get(probe.opts.toMs)

\* the record's level is one of the levels asked for
levelListed ==
  /\ probe.record.level # Null
  /\ \E i \in 1..Len(probe.opts.levels) :
       toUpperCase(probe.opts.levels[i]) = toUpperCase(Get(probe.record.level))

\* the record's thread name contains the thread asked for
threadContains ==
  /\ probe.record.thread # Null
  /\ Includes(fold(Get(probe.record.thread)), fold(Get(probe.opts.thread)))

\* keyword i occurs in the given lines joined by newlines
keywordIn(i, lines) == Includes(fold(Join(lines)), fold(probe.opts.keywords[i]))

\* at least one keyword occurs in the join of all the record's lines
keywordOccurs ==
  \E i \in 1..Len(probe.opts.keywords) : keywordIn(i, probe.record.lines)

\* C11: with a time bound given, a record matches only if it has a
\* timestampMs with from <= timestampMs <= to over the bounds present (so a
\* record without timestampMs never matches), and when the range is the
\* only criterion it matches exactly then.
C11_TimeRange ==
  (applied /\ rangeGiven) =>
    /\ isMatch => inRange
    /\ (~levelGiven /\ ~threadGiven /\ ~keywordGiven) => (isMatch <=> inRange)

\* a record whose timestamp lies on both bounds has matched
C11_Witness ==
  /\ applied
  /\ probe.opts.fromMs = Some(1000)
  /\ probe.opts.toMs = Some(1000)
  /\ probe.record.timestampMs = Some(1000)
  /\ isMatch

\* C12: with keywords given, a record matches only if at least one keyword
\* occurs in the join of all its lines (case-folded in case-insensitive
\* mode), and when keywords are the only criterion it matches exactly then;
\* a keyword found only in a continuation line counts.
C12_Keyword ==
  (applied /\ keywordGiven) =>
    /\ isMatch => keywordOccurs
    /\ (~rangeGiven /\ ~levelGiven /\ ~threadGiven) => (isMatch <=> keywordOccurs)

\* a record has matched on a keyword that its first line does not contain
C12_Witness ==
  /\ applied
  /\ keywordGiven
  /\ Len(probe.record.lines) = 2
  /\ \A i \in 1..Len(probe.opts.keywords) : ~keywordIn(i, <<probe.record.lines[1]>>)
  /\ isMatch

\* C13: the filter is the conjunction of the criteria that are given, a
\* filter without criteria matches every record, and with both context
\* counts 0 a record is printed (once, as the match) exactly when it
\* satisfies all the criteria.
C13_Conjunction ==
  applied =>
    /\ isMatch <=> /\ rangeGiven => inRange
                   /\ levelGiven => levelListed
                   /\ threadGiven => threadContains
                   /\ keywordGiven => keywordOccurs
    /\ (~rangeGiven /\ ~levelGiven /\ ~threadGiven /\ ~keywordGiven) => isMatch
    /\ Len(probe.printer) = (IF isMatch THEN 1 ELSE 0)
    /\ \A i \in 1..Len(probe.printer) :
         /\ probe.printer[i].role = "match"
         /\ probe.printer[i].lines = probe.record.lines

\* a record has matched a filter that gives all four criteria
C13_Witness ==
  /\ applied
  /\ probe.opts.fromMs # Null /\ probe.opts.toMs # Null
  /\ levelGiven /\ threadGiven /\ keywordGiven
  /\ isMatch
  /\ Len(probe.printer) = 1

\* C14: a record without a level never matches when levels are given, and a
\* record without a thread never matches when a thread is given.
C14_MissingHeaderField ==
  applied =>
    /\ (levelGiven /\ probe.record.level = Null) => ~isMatch
    /\ (threadGiven /\ probe.record.thread = Null) => ~isMatch

\* a record without a level that the level filter alone has rejected
C14_Witness ==
  /\ applied
  /\ levelGiven /\ ~rangeGiven /\ ~threadGiven
  /\ keywordGiven /\ keywordOccurs
  /\ probe.record.level = Null
  /\ ~isMatch

\* ------------------------------------------------------ the text output
\* the label the first line of a record of the given role is to carry
roleLabel(role) ==
  CASE role = "match" -> "[MATCH]"
    [] role = "context-before" -> "[BEFORE]"
    [] role = "context-after" -> "[AFTER]"

\* C15: in text mode the first line of every printed record carries the
\* label of its role, "[MATCH]", "[BEFORE]" or "[AFTER]", and the other
\* lines of the record carry no label.
C15_TextLabels ==
  \A k \in 1..Len(calls) :
    LET out == printText(calls[k])
    IN /\ out[1].label = roleLabel(calls[k].role)
       /\ out[1].line = calls[k].lines[1]
       /\ \A j \in 2..Len(out) :
            out[j].label = "" /\ out[j].line = calls[k].lines[j]

\* ------------------------------------------------------ the index written
\* The records a file of the given lines consists of, whatever the options
\* of the run: n lines are consumed, done are the closed records.
RECURSIVE assemble(_, _, _, _)
assemble(lines, n, done, current) ==
  LET closed == IF current = Null THEN done
                ELSE Append(done, finalizeFields([recordIndex |-> Len(done)],
                                                 Get(current)))
  IN IF n = Len(lines) THEN closed
     ELSE IF isStart(lines[n + 1])
     THEN assemble(lines, n + 1, closed, Some(createRecord(lines[n + 1], n + 1)))
     ELSE IF current # Null
     THEN assemble(lines, n + 1, done,
                   Some(appendLine(Get(current), lines[n + 1], n + 1)))
     ELSE assemble(lines, n + 1, done, Some(createRecord(lines[n + 1], n + 1)))

\* C16: the index starts with the metadata line and then holds one line
\* for every record finalized so far, in order, each the serialization of
\* the record as the input alone determines it: the filter and the context
\* counts of the run have no part in it.
C16_IndexHoldsEveryRecord ==
  options.writeIndexPath =>
    LET stream == Get(processFile.indexStream)
        all == assemble(input, 0, << >>, Null)
        n == IF processFile.current # Null THEN Len(all) - 1 ELSE Len(all)
    IN /\ Len(stream) = n + 1
       /\ stream[1] = meta
       /\ n = processFile.totalRecords
       /\ \A k \in 1..n : stream[k + 1] = serializeRecordForIndex(all[k])

\* an index completed for an input of which one record was printed and
\* another was not
C16_Witness ==
  /\ options.writeIndexPath
  /\ pc # "scan"
  /\ Len(indexRecords) >= 2
  /\ \E k \in 1..Len(finalized) : callsOf(k) # {}
  /\ \E k \in 1..Len(finalized) : callsOf(k) = {}

\* ------------------------------------------------------------ the sinks
\* C17: while a write to the index stream (the metadata line or a record
\* line) has returned false and 'drain' has not been emitted, no line is
\* read, no record is finalized and nothing is written to the index; and
\* the index always holds the metadata line and then the records finalized
\* so far, each once and in order.
C17_IndexBackpressure ==
  /\ [][indexSink.needDrain =>
          /\ processFile'.lineNumber = processFile.lineNumber
          /\ processFile'.totalRecords = processFile.totalRecords
          /\ processFile'.indexStream = processFile.indexStream]_vars
  /\ [](options.writeIndexPath =>
          indexRecords = [k \in 1..Len(finalized) |->
                            serializeRecordForIndex(finalized[k])])

\* C18: while a write of the printer to process.stdout has returned false
\* and stdout has not emitted 'drain', no record is finalized or printed.
C18_StdoutBackpressure ==
  [][stdout.needDrain =>
       /\ processFile'.totalRecords = processFile.totalRecords
       /\ processFile'.printer = processFile.printer]_vars

\* C19: in a run that writes an index, processFile has returned or the
\* process has exited with code 0 only if every record of the input has
\* been finalized and written to the index, the index stream has been
\* ended and the callback of end() has run.
C19_SuccessAfterIndexClosed ==
  (options.writeIndexPath
   /\ (pc \in {"returned", "done"} \/ process.exitCode = Some(0))) =>
    /\ processFile.current = Null
    /\ indexRecords = [k \in 1..Len(finalized) |->
                         serializeRecordForIndex(finalized[k])]
    /\ Len(finalized) = Len(assemble(input, 0, << >>, Null))
    /\ indexSink.ended
    /\ indexSink.finished

\* C20: once process.stdout has reported EPIPE the process has exited with
\* code 0 and nothing on stderr, and no record is printed from then on.
C20_BrokenPipe ==
  /\ [](stdout.error = Some("EPIPE") =>
          process.exitCode = Some(0) /\ process.stderr = << >>)
  /\ [][stdout.error = Some("EPIPE") =>
          processFile'.printer = processFile.printer]_vars

\* the consumer went away in the middle of the scan
C20_Witness ==
  /\ stdout.error = Some("EPIPE")
  /\ process.exitCode = Some(0)
  /\ pc = "scan"
  /\ processFile.current # Null
  /\ processFile.lineNumber < MaxLines

\* ------------------------------------------------------ the index read
\* line i of the index file is a metadata line
isMetaLine(line) ==
  /\ line.json # Null
  /\ "type" \in DOMAIN Get(line.json)
  /\ Get(line.json).type = "meta"

\* line i of the index file is not empty and is not valid JSON
isMalformed(line) == ~line.empty /\ line.json = Null

\* the filter and context arguments of the run, nothing else
replayOptions ==
  [contextBefore |-> options.contextBefore, contextAfter |-> options.contextAfter,
   filter |-> options.filter]

\* What reading the given well-formed lines leaves in the locals of
\* processIndex, under the filter and context arguments alone.
RECURSIVE replayIndex(_, _)
replayIndex(lines, s) ==
  IF Len(lines) = 0 THEN s
  ELSE LET line == lines[1]
           t == [s EXCEPT !.lineNumber = @ + 1]
       IN replayIndex(Tail(lines),
            IF line.empty THEN t
            ELSE IF isMetaLine(line) THEN [t EXCEPT !.meta = line.json]
            ELSE indexFinalizeRecord(t, indexRecord(Get(line.json)), replayOptions))

\* the locals of processIndex before the first line
FreshIndexRead ==
  [beforeBuffer |-> << >>, afterCountdown |-> 0, recordIndex |-> 0,
   totalRecords |-> 0, matchCount |-> 0, meta |-> Null,
   lineNumber |-> 0, printer |-> << >>]

\* C21 as stated: a line after a metadata line that is not valid JSON,
\* the empty line included, is the last line read and the process has
\* ended with exit code 1.
C21_AnyInvalidLineAborts ==
  \A i \in 1..Len(input) :
    (input[i].json = Null /\ \E j \in 1..(i - 1) : isMetaLine(input[j])) =>
      i = Len(input) /\ process.exitCode = Some(1)

\* C21 amended: a non-empty line that is not valid JSON is the last line
\* read; the process has ended with exit code 1 and an error that names
\* the index file and the 1-based number of that line; the step that reads
\* it prints nothing, so what was printed before stays and nothing is
\* printed for it or after it.  (An empty line is skipped.)
C21_MalformedLineAborts ==
  /\ [](\A i \in 1..Len(input) :
          isMalformed(input[i]) =>
            /\ i = Len(input)
            /\ process.exitCode = Some(1)
            /\ Len(process.stderr) = 1
            /\ process.stderr[1].err.file = IndexPath
            /\ process.stderr[1].err.line = i)
  /\ [][(\E i \in 1..Len(input') : isMalformed(input'[i])) =>
          /\ processIndex'.printer = processIndex.printer
          /\ processIndex'.totalRecords = processIndex.totalRecords]_vars

\* a malformed third line has ended a read that had printed a record
C21_Witness ==
  /\ Len(input) = 3
  /\ isMalformed(input[3])
  /\ input[1].empty
  /\ Len(processIndex.printer) = 1
  /\ process.exitCode = Some(1)

\* C22: the metadata captured is the first metadata line of the file, and
\* the staleness warnings are those for that line; metadata lines are not
\* records: they take no sequence index and are not printed.
C22_FirstMetaCaptured ==
  LET metas == {i \in 1..Len(input) : isMetaLine(input[i])}
      first == CHOOSE i \in metas : \A j \in metas : i <= j
      records == {i \in 1..Len(input) :
                    input[i].json # Null /\ ~isMetaLine(input[i])}
  IN /\ processIndex.recordIndex = Cardinality(records)
     /\ Len(processIndex.printer) <= Cardinality(records)
     /\ metas = {} => processIndex.meta = Null
     /\ metas # {} =>
          /\ processIndex.meta = input[first].json
          /\ (pc = "exited" /\ process.exitCode = Some(0)) =>
               process.stderr = staleWarnings(input[first].json, IndexPath,
                                              options.expectedFile, options.expectedStat)

\* C23: an index whose metadata disagrees with the live file is read to
\* its end like any other: the process ends with exit code 0, the printer
\* calls and the counts are what the lines of the index give under the
\* filter and context arguments alone, and stderr holds the warning only.
C23_StaleIsNotAnError ==
  (pc = "exited" /\ \A i \in 1..Len(input) : ~isMalformed(input[i])) =>
    LET expected == replayIndex(input, FreshIndexRead)
    IN /\ process.exitCode = Some(0)
       /\ processIndex.printer = expected.printer
       /\ processIndex.totalRecords = expected.totalRecords
       /\ processIndex.matchCount = expected.matchCount
       /\ \A i \in 1..Len(process.stderr) : "warn" \in DOMAIN process.stderr[i]

\* an index of another file has been read to its end, a record was printed
\* and the warning was given
C23_Witness ==
  /\ pc = "exited"
  /\ process.exitCode = Some(0)
  /\ Len(process.stderr) = 1
  /\ process.stderr[1].warn = "was generated for"
  /\ Len(processIndex.printer) > 0

\* the recorded path, resolved, is not the path of the live file
pathDisagrees ==
  /\ Get(processIndex.meta).file # Null
  /\ Some(pathResolve(Get(Get(processIndex.meta).file))) # options.expectedFile

\* the recorded mtime and the mtime of the live file are d apart or more
mtimeApart(d) ==
  /\ options.expectedStat # Null
  /\ Get(processIndex.meta).mtimeMs # Null
  /\ LET recorded == Get(Get(processIndex.meta).mtimeMs)
         live == Get(options.expectedStat).mtimeMs
     IN recorded - live >= d \/ live - recorded >= d

configFault ==
  /\ ~fs.readIndex
  /\ \/ fs.config \in {"unreadable", "unparsable"}
     \/ fs.config = "missing" /\ fs.configProvided

\* the file the run reads, source or index, is missing or unreadable
inputFault ==
  IF fs.readIndex THEN fs.index \in {"missing", "unreadable"}
  ELSE fs.file \in {"missing", "vanished", "unreadable"}

\* C25: with a configuration or input fault, once main has come to the end
\* of its start-up the process has exited with code 1, no printer call was
\* made and no index file was created or written.
C25_FatalBeforeProcessing ==
  (pc \notin {"main", "processFile", "processIndex"}
   /\ (configFault \/ inputFault)) =>
    /\ pc = "exited"
    /\ process.exitCode = Some(1)
    /\ processFile.printer = << >>
    /\ processIndex.printer = << >>
    /\ processFile.indexStream = Null
    /\ fs.indexFile = Null

\* ----------------------------------------------- the start of the input
\* C26: an input without lines gives no record; the first line of an input
\* opens the first record, whether it matches the start pattern or not;
\* and an input of which no line matches the start pattern is one record
\* that starts at line 1 and holds every line.
C26_StartOfInput ==
  LET open == processFile.current
      headless == \A i \in 1..Len(input) : startRegexMatch(input[i]) = Null
  IN /\ input = << >> =>
          finalized = << >> /\ open = Null /\ processFile.totalRecords = 0
     /\ input # << >> =>
          LET first == IF finalized # << >> THEN finalized[1] ELSE Get(open)
          IN /\ pc = "scan" => open # Null
             /\ first.startLine = 1
             /\ first.lines[1] = input[1]
     /\ (input # << >> /\ headless) =>
          IF pc = "scan"
          THEN /\ finalized = << >>
               /\ Get(open).startLine = 1
               /\ Get(open).lines = input
          ELSE /\ Len(finalized) = 1
               /\ processFile.totalRecords = 1
               /\ finalized[1].startLine = 1
               /\ finalized[1].endLine = Len(input)
               /\ finalized[1].lines = input

\* a file of three lines, none a start line, has been read to its end
C26_Witness ==
  /\ pc # "scan"
  /\ Len(input) = 3
  /\ \A i \in 1..Len(input) : startRegexMatch(input[i]) = Null
  /\ input[1] = LineBlank
  /\ Len(finalized) = 1

\* ------------------------------------------------- the tree that is drawn
\* C27: an entry is drawn with the corner connector exactly when no entry
\* listed after it has the same parent directory, and with the tee
\* connector otherwise.
C27_ConnectorOfLastSibling ==
  LET out == analyzer.output
      parent(p) == SubSeq(p, 1, Len(p) - 1)
  IN \A i \in 1..Len(out) :
       (out[i].connector = "+-- ") <=>
         ~\E k \in (i + 1)..Len(out) : parent(out[k].path) = parent(out[i].path)

\* C28: with --depth d every listed entry has depth at most d and the
\* summary counts just the entries of the tree down to depth d; without
\* --depth every entry of the tree is listed and counted.
C28_DepthLimit ==
  analyzer.stage = "done" =>
    LET within == IF analyzer.depth = Null THEN analyzer.tree
                  ELSE {e \in analyzer.tree : Len(e.path) <= Get(analyzer.depth)}
    IN /\ {e.path : e \in analyzer.results} = {e.path : e \in within}
       /\ \A e \in analyzer.results : e.depth = Len(e.path)
       /\ Len(analyzer.output) = Cardinality(within)
       /\ analyzer.totalItems = Cardinality(within)
       /\ analyzer.totalFiles = Cardinality({e \in within : ~e.isDir})

\* ----------------------------------------------------- the obfuscated text
\* the lines of a text: a last line needs no NL to end it
linesOf(text) ==
  LET parts == Split(text)
  IN IF parts[Len(parts)] = << >> THEN SubSeq(parts, 1, Len(parts) - 1) ELSE parts

\* each line of a text obfuscated, once and in order
obfuscated(text) == writeLines(linesOf(text), defaultPatterns)

\* what has been written for the input file f so far
delivered(f) ==
  LET st == obfuscator.streams[f]
  IN IF st.wstate = "stdout" THEN obfuscator.stdoutText
     ELSE IF st.wstate \in {"opening", "failed"} THEN st.buffered
     ELSE obfuscator.outFiles[Get(st.outputPath)]

isPrefix(a, b) == Len(a) <= Len(b) /\ SubSeq(b, 1, Len(a)) = a

\* C29: for a single input file what is written is at any time a prefix
\* of the obfuscation of the input lines, each once and in input order,
\* and after the 'end' event it is all of it, however the read stream cut
\* the input into chunks.
C29_LineStructure ==
  (pc = "obfu" /\ InputPath \in DOMAIN obfuscator.streams) =>
    /\ isPrefix(delivered(InputPath), obfuscated(obfuscator.inFiles[InputPath]))
    /\ obfuscator.streams[InputPath].ended =>
         delivered(InputPath) = obfuscated(obfuscator.inFiles[InputPath])

\* a file of two lines is at its end, a chunk having ended between the
\* two halves of an IP address, and the address is written redacted
C29_Witness ==
  /\ pc = "obfu"
  /\ InputPath \in DOMAIN obfuscator.streams
  /\ LET st == obfuscator.streams[InputPath]
         text == obfuscator.inFiles[InputPath]
     IN /\ st.ended
        /\ Len(linesOf(text)) >= 2
        /\ \E c \in st.cuts : c < Len(text) /\ text[c] = "ip=10.0" /\ text[c + 1] = ".0.1;"
        /\ \E k \in 1..Len(delivered(InputPath)) :
              delivered(InputPath)[k] = "ip=[IP_REDACTED];"

\* nothing of the run is left to happen
obfuQuiet ==
  \/ obfuscator.exitCode # Null
  \/ /\ obfuscator.stage = "run"
     /\ obfuscator.readdirs = {}
     /\ \A f \in DOMAIN obfuscator.streams :
          obfuscator.streams[f].ended /\ obfuscator.streams[f].wstate \in {"closed", "stdout"}

\* C30: with an input directory and an output directory, an output file
\* never holds anything but the obfuscated lines of its own input file,
\* and when the run is over every file under the input directory stands
\* obfuscated at the same relative path under the output directory.
C30_DirectoryMirrored ==
  (pc = "obfu" /\ InputPath \in obfuscator.inDirs /\ obfuscator.output # Null) =>
    LET target(f) == Get(obfuscator.output) \o SubSeq(f, 2, Len(f))
    IN /\ \A f \in DOMAIN obfuscator.streams :
            /\ obfuscator.streams[f].outputPath = Some(target(f))
            /\ isPrefix(delivered(f), obfuscated(obfuscator.inFiles[f]))
       /\ DOMAIN obfuscator.outFiles \subseteq {target(f) : f \in DOMAIN obfuscator.inFiles}
       /\ obfuQuiet =>
            \A f \in DOMAIN obfuscator.inFiles :
              /\ target(f) \in DOMAIN obfuscator.outFiles
              /\ obfuscator.outFiles[target(f)] = obfuscated(obfuscator.inFiles[f])

\* ------------------------------------------------------ the open record
\* a record without the flag that says whether it has been printed
frozen(record) == [record EXCEPT !.printed = FALSE]

\* appendLine has been applied to the open record in the step
appended ==
  /\ processFile.current # Null
  /\ processFile'.current # Null
  /\ Get(processFile'.current).startLine = Get(processFile.current).startLine
  /\ Get(processFile'.current).lines # Get(processFile.current).lines

\* C31: in every step of the raw scan the records finalized before stay as
\* they are; every record the before-buffer holds is the finalized record
\* of its sequence index in its lines, line range, index, message and
\* header fields; the one record that is open is none of the finalized
\* ones, and a step that appends a line to it finalizes no record.
C31_FinalizedIsFrozen ==
  [][/\ Len(finalized') >= Len(finalized)
     /\ SubSeq(finalized', 1, Len(finalized)) = finalized
     /\ \A i \in 1..Len(processFile'.beforeBuffer) :
          LET ctx == processFile'.beforeBuffer[i]
          IN /\ ctx.index \in 1..Len(finalized')
             /\ frozen(ctx) = frozen(finalized'[ctx.index])
     /\ processFile'.current # Null =>
          /\ Get(processFile'.current).index = 0
          /\ \A k \in 1..Len(finalized') :
               Get(processFile'.current).startLine > finalized'[k].endLine
     /\ appended => finalized' = finalized]_vars

\* a finalized record sits in the before-buffer, printed since it was
\* finalized, while the record after it is open and has taken a line
C31_Witness ==
  /\ pc = "scan"
  /\ processFile.current # Null
  /\ Len(Get(processFile.current).lines) >= 2
  /\ \E i \in 1..Len(processFile.beforeBuffer) :
       LET ctx == processFile.beforeBuffer[i]
       IN /\ ctx.printed
          /\ ~finalized[ctx.index].printed
          /\ Len(ctx.lines) >= 2

\* ------------------------------------------------ the window's own state
\* C32: after each record the before-buffer of the raw scan holds the
\* last min(B, n) of the n records finalized so far, oldest first, and
\* none when B = 0; the buffer of the index replay holds the records of
\* the last min(B, n) sequence indexes; each countdown lies in 0..A and
\* is 0 as long as no record has matched (none printed as a match).
C32_WindowState ==
  LET B == options.contextBefore
      A == options.contextAfter
      n == Len(finalized)
      held == processFile.beforeBuffer
      m == processIndex.recordIndex
      replayed == processIndex.beforeBuffer
  IN /\ Len(held) = IF B = 0 THEN 0 ELSE Min(B, n)
     /\ \A i \in 1..Len(held) : frozen(held[i]) = frozen(finalized[n - Len(held) + i])
     /\ processFile.afterCountdown \in 0..A
     /\ processFile.matchCount = 0 => processFile.afterCountdown = 0
     /\ (\A i \in 1..Len(calls) : calls[i].role # "match") => processFile.matchCount = 0
     /\ Len(replayed) = IF B = 0 THEN 0 ELSE Min(B, m)
     /\ \A i \in 1..Len(replayed) : replayed[i].index = m - Len(replayed) + i
     /\ processIndex.afterCountdown \in 0..A
     /\ processIndex.matchCount = 0 => processIndex.afterCountdown = 0

\* four records read with B = 2 and A = 2: the two oldest have left the
\* buffer, and a countdown started by a match is running
C32_Witness ==
  /\ options.contextBefore = 2
  /\ options.contextAfter = 2
  /\ Len(finalized) = 4
  /\ Len(processFile.beforeBuffer) = 2
  /\ processFile.beforeBuffer[1].index = 3
  /\ processFile.matchCount >= 1
  /\ processFile.afterCountdown = 1

\* ------------------------------------------------- the opening line
\* C33: a record whose opening line matches the full header pattern has
\* its timestampRaw, level, pid and thread; one whose opening line matches
\* the start pattern only has the timestamp as timestampRaw and the rest
\* of the line as its message, and no level, pid, thread or location; one
\* whose opening line matches neither has the whole line as its message
\* and neither timestampRaw nor timestampMs.
C33_OpeningLine ==
  LET record == probe.record
      opening == record.lines[1]
      header == headerRegexMatch(opening)
      start == startRegexMatch(opening) # Null
      ownMessage == IF record.messageLines = << >> \/ record.message = << >>
                    THEN << >> ELSE record.messageLines[1]
  IN /\ ownMessage = record.message
     /\ header =>
          /\ record.timestampRaw = Some(opening[1])
          /\ record.level = Some(opening[2])
          /\ record.pid = Some(opening[3])
          /\ record.thread # Null /\ Get(record.thread) # << >>
     /\ (start /\ ~header) =>
          /\ record.timestampRaw = Some(opening[1])
          /\ record.message = Tail(opening)
          /\ record.level = Null /\ record.pid = Null
          /\ record.thread = Null /\ record.location = Null
     /\ (~start /\ ~header) =>
          /\ record.message = opening
          /\ record.timestampRaw = Null
          /\ record.timestampMs = Null
          /\ record.level = Null /\ record.thread = Null

\* the filter has been applied to a record that opens with a timestamp
\* and plain text, and has taken a second line
C33_Witness ==
  /\ pc = "filter"
  /\ probe.isMatch # Null
  /\ probe.record.lines[1] = LineBare
  /\ Len(probe.record.lines) = 2
  /\ probe.record.timestampRaw = Some(TsInvalid)
  /\ probe.record.level = Null

\* ------------------------------------------------- the end of the scan
\* the loop of processFile and the finalizeRecord after it are over
scanOver == pc \in {"finally", "ending", "returned", "done"}

\* every record of the input has been finalized once: counted, numbered
\* and, when an index is written, appended to it
allFinalizedOnce ==
  /\ processFile.current = Null
  /\ Len(finalized) = Len(assemble(input, 0, << >>, Null))
  /\ processFile.totalRecords = Len(finalized)
  /\ \A k \in 1..Len(finalized) : finalized[k].index = k
  /\ options.writeIndexPath =>
       indexRecords = [k \in 1..Len(finalized) |->
                         serializeRecordForIndex(finalized[k])]

\* C34: with an index stream that emits 'drain' whenever it has signalled
\* that it is full, the raw scan of a finite input comes to its end,
\* unless the process ends with a failure, and at its end, or at a
\* success exit, every record of the input has been finalized exactly once.
C34_ScanTerminates ==
  /\ <>(scanOver \/ process.exitCode = Some(1))
  /\ []((scanOver \/ process.exitCode = Some(0)) => allFinalizedOnce)
====
